---------------------------- MODULE Spec2Model ----------------------------
(***************************************************************************)
(* A model of splink's dialect registry (splink/dialects.py) and of the    *)
(* u-probability training run (splink/estimate_u.py).                      *)
(*                                                                         *)
(* SQL text and error messages are TLA+ strings, built with \o as the      *)
(* source builds them with f-strings.  Python floats are fixed-point       *)
(* integers in units of 1/Scale.  Python's None is the string "None" for   *)
(* string-valued arguments and the integer None for the seed.  The         *)
(* backquotes of the source's messages are left out of the strings.        *)
(***************************************************************************)
EXTENDS Integers, Sequences, FiniteSets, TLC

VARIABLES
    dialect_instances,  \* SplinkDialect._dialect_instances: class -> object id
    heap,               \* every SplinkDialect object allocated so far (its class)
    subclasses,         \* SplinkDialect.__subclasses__(), in definition order
    factory_name,       \* class -> its _dialect_name_for_factory
    dialect_lookup,     \* the module's _dialect_lookup: name -> object id
    ret,                \* the last call on the dialect layer and its outcome
    linker,             \* the caller's Linker
    run,                \* per training run: estimate_u_values' frame
    backend,            \* the database: the result handles handed out
    expressions,        \* every ColumnExpression object created so far
    operation_lists,    \* every list an expression's operations attribute refers to
    compiled,           \* the last read of an expression's properties
    sampled             \* the last sampling computation and its outcome

dialect_vars == <<dialect_instances, heap, subclasses, factory_name,
                  dialect_lookup, ret>>
run_vars == <<linker, run, backend>>
expression_vars == <<expressions, operation_lists, compiled>>
sampling_vars == <<sampled>>
vars == <<dialect_instances, heap, subclasses, factory_name, dialect_lookup,
          ret, linker, run, backend, expressions, operation_lists, compiled,
          sampled>>

---------------------------------------------------------------------------
(* Bounds of the model *)

\* Fixed-point resolution of the modelled floats: the float x is the integer x * Scale.
Scale == 100
\* User-defined subclasses of SplinkDialect that may be declared.
MaxUserSubclasses == 2
\* Largest capture group passed to regex_extract.
MaxCaptureGroup == 2
\* Largest seed passed to random_sample_sql (seeds are 0..MaxSeed, or None).
MaxSeed == 1
\* Longest list of columns passed to explode_arrays_sql.
MaxExplode == 2
\* ColumnExpression objects that may be created.
MaxExpressions == 3
\* Most rows of the input of a sampling computation within one dataset.
MaxRows == 12
\* Largest max_pairs of a sampling computation.
MaxTargetPairs == 70
\* Most datasets linked, and most rows of one of them.
MaxDatasets == 3
MaxDatasetRows == 4

---------------------------------------------------------------------------
(* Values *)

\* Python's None where an integer is expected (the seed).
None == -1
\* No object: a class that has no entry in _dialect_instances.
NoObj == 0

Ok(text) == [kind |-> "return", exc |-> "", text |-> text]
Raise(exc, msg) == [kind |-> "raise", exc |-> exc, text |-> msg]

\* Python's 't in s' on strings.
Contains(s, t) ==
    \E i \in 1..(Len(s) - Len(t) + 1) : SubSeq(s, i, i + Len(t) - 1) = t

\* Python's truth value of an optional integer: None and 0 are false.
Truthy(v) == v # None /\ v # 0

\* sep.join(items) for a sequence of strings.
RECURSIVE Join(_, _)
Join(items, sep) ==
    IF Len(items) = 0 THEN ""
    ELSE IF Len(items) = 1 THEN items[1]
    ELSE items[1] \o sep \o Join(Tail(items), sep)

\* str(x) of a float held in fixed point, to two decimals.
FloatStr(v) ==
    LET hund == ((v % Scale) * 100) \div Scale
    IN  ToString(v \div Scale) \o "." \o
        (IF hund < 10 THEN "0" ELSE "") \o ToString(hund)

\* int(x) of a non-negative float: truncation.
IntOf(v) == v \div Scale

\* round(x) of a non-negative float: to the nearest integer, ties to even.
RoundOf(v) ==
    LET q == v \div Scale
        r == v % Scale
    IN  IF 2 * r < Scale THEN q
        ELSE IF 2 * r > Scale THEN q + 1
        ELSE IF q % 2 = 0 THEN q ELSE q + 1

---------------------------------------------------------------------------
(* splink/dialects.py: the classes *)

BuiltinClasses ==
    <<"DuckDBDialect", "SparkDialect", "SQLiteDialect", "PostgresDialect",
      "AthenaDialect">>

UserClass(i) == "UserDialect" \o ToString(i)
UserClasses == {UserClass(i) : i \in 1..MaxUserSubclasses}

Range(s) == {s[i] : i \in 1..Len(s)}
Classes == Range(BuiltinClasses) \cup UserClasses

\* _dialect_name_for_factory as each shipped subclass sets it.
BuiltinFactoryName(cls) ==
    CASE cls = "DuckDBDialect" -> "duckdb"
      [] cls = "SparkDialect" -> "spark"
      [] cls = "SQLiteDialect" -> "sqlite"
      [] cls = "PostgresDialect" -> "postgres"
      [] cls = "AthenaDialect" -> "athena"
      [] OTHER -> "None"

\* The name property of each shipped subclass.
name(cls) ==
    CASE cls = "DuckDBDialect" -> "duckdb"
      [] cls = "SparkDialect" -> "spark"
      [] cls = "SQLiteDialect" -> "sqlite"
      [] cls = "PostgresDialect" -> "postgres"
      [] cls = "AthenaDialect" -> "athena"
      [] OTHER -> "user"

\* str(cls): the shipped classes live in splink.dialects.
class_repr(cls) ==
    IF cls \in Range(BuiltinClasses)
    THEN "<class 'splink.dialects." \o cls \o "'>"
    ELSE "<class '__main__." \o cls \o "'>"

\* The backend names the registry ships.
DialectNames == {BuiltinFactoryName(c) : c \in Range(BuiltinClasses)}


---------------------------------------------------------------------------
(* splink/dialects.py: the capabilities *)

\* The base class's NotImplementedError for a missing function.
NoFunction(cls, what) ==
    Raise("NotImplementedError",
          "Backend '" \o name(cls) \o "' does not have a '" \o what \o "' function")

\* Python's error for an attribute no class in the MRO defines.
NoAttribute(cls, attr) ==
    Raise("AttributeError",
          "'" \o cls \o "' object has no attribute '" \o attr \o "'")

levenshtein_function_name(cls) ==
    IF cls \in {"DuckDBDialect", "SparkDialect", "SQLiteDialect", "PostgresDialect"}
    THEN Ok("levenshtein")
    ELSE NoFunction(cls, "Levenshtein")

damerau_levenshtein_function_name(cls) ==
    IF cls \in {"DuckDBDialect", "SparkDialect", "SQLiteDialect"}
    THEN Ok("damerau_levenshtein")
    ELSE NoFunction(cls, "Damerau-Levenshtein")

jaro_function_name(cls) ==
    CASE cls = "DuckDBDialect" -> Ok("jaro_similarity")
      [] cls \in {"SparkDialect", "SQLiteDialect"} -> Ok("jaro_sim")
      [] OTHER -> NoFunction(cls, "Jaro")

jaro_winkler_function_name(cls) ==
    CASE cls = "DuckDBDialect" -> Ok("jaro_winkler_similarity")
      [] cls \in {"SparkDialect", "SQLiteDialect"} -> Ok("jaro_winkler")
      [] OTHER -> NoFunction(cls, "Jaro-Winkler")

jaccard_function_name(cls) ==
    IF cls \in {"DuckDBDialect", "SparkDialect"}
    THEN Ok("jaccard")
    ELSE NoFunction(cls, "Jaccard")

default_date_format(cls) ==
    CASE cls = "DuckDBDialect" -> "%Y-%m-%d"
      [] cls = "SparkDialect" -> "yyyy-MM-dd"
      [] cls = "PostgresDialect" -> "YYYY-MM-DD"
      [] OTHER -> "None"

\* _try_parse_date_raw: DuckDB and Spark override it, the base raises.
try_parse_date_raw(cls, col, date_format) ==
    LET fmt == IF date_format = "None" THEN default_date_format(cls) ELSE date_format
    IN  CASE cls = "DuckDBDialect" ->
               Ok("try_strptime(" \o col \o ", '" \o fmt \o "')")
          [] cls = "SparkDialect" ->
               Ok("to_date(" \o col \o ", '" \o fmt \o "')")
          [] OTHER -> NoFunction(cls, "try_parse_date")

\* try_parse_date: Postgres overrides the method itself, the others go
\* through _try_parse_date_raw.
try_parse_date(cls, col, date_format) ==
    IF cls = "PostgresDialect"
    THEN LET fmt == IF date_format = "None" THEN default_date_format(cls)
                    ELSE date_format
         IN  Ok("try_cast_date(" \o col \o ", '" \o fmt \o "')")
    ELSE try_parse_date_raw(cls, col, date_format)

\* _regex_extract_raw
regex_extract_raw(cls, col, pattern, capture_group) ==
    CASE cls \in {"DuckDBDialect", "SparkDialect"} ->
           Ok("regexp_extract(" \o col \o ", '" \o pattern \o "', "
              \o ToString(capture_group) \o ")")
      [] cls = "PostgresDialect" ->
           IF capture_group > 1
           THEN Raise("ValueError",
                      "'postgres' backend does not currently support a capture_group "
                      \o "greater than 1. To proceed you must use your own SQL expression")
           ELSE LET pat == IF capture_group = 0 THEN "(" \o pattern \o ")" ELSE pattern
                IN  Ok("substring(" \o col \o " from '" \o pat \o "')")
      [] OTHER -> NoFunction(cls, "regex_extract")

\* _wrap_in_nullif applied to a call's outcome: a raise passes through.
wrap_in_nullif(r) ==
    IF r.kind = "return" THEN Ok("NULLIF(" \o r.text \o ", '')") ELSE r

regex_extract(cls, col, pattern, capture_group) ==
    wrap_in_nullif(regex_extract_raw(cls, col, pattern, capture_group))

\* random_sample_sql with the 'proportion == 1.0' early return dropped.
random_sample_sql_no_early_return(cls, proportion, sample_size, seed) ==
    CASE cls = "DuckDBDialect" ->
           IF Truthy(seed)
           THEN Ok("USING SAMPLE bernoulli(" \o FloatStr(proportion * 100)
                   \o "%) REPEATABLE(" \o ToString(seed) \o ")")
           ELSE Ok("USING SAMPLE " \o FloatStr(proportion * 100) \o "% (bernoulli)")
      [] cls = "SparkDialect" ->
           IF Truthy(seed)
           THEN Ok(" ORDER BY rand(" \o ToString(seed) \o ") LIMIT "
                   \o ToString(RoundOf(sample_size)))
           ELSE Ok(" TABLESAMPLE (" \o FloatStr(proportion * 100) \o " PERCENT) ")
      [] cls \in {"SQLiteDialect", "PostgresDialect"} ->
           IF Truthy(seed)
           THEN Raise("NotImplementedError",
                      (IF cls = "SQLiteDialect" THEN "SQLite" ELSE "Postgres")
                      \o " does not support seeds in random "
                      \o "samples. Please remove the seed parameter.")
           ELSE Ok("ORDER BY RANDOM() LIMIT " \o ToString(IntOf(sample_size)))
      [] OTHER ->
           Raise("NotImplementedError",
                 "Backend '" \o name(cls)
                 \o "' needs a random_sample_sql added to its dialect")

\* random_sample_sql(proportion, sample_size, seed): proportion and
\* sample_size are floats in fixed point, seed is an integer or None.
random_sample_sql(cls, proportion, sample_size, seed) ==
    CASE cls = "DuckDBDialect" ->
           IF proportion = Scale THEN Ok("")
           ELSE IF Truthy(seed)
           THEN Ok("USING SAMPLE bernoulli(" \o FloatStr(proportion * 100)
                   \o "%) REPEATABLE(" \o ToString(seed) \o ")")
           ELSE Ok("USING SAMPLE " \o FloatStr(proportion * 100) \o "% (bernoulli)")
      [] cls = "SparkDialect" ->
           IF proportion = Scale THEN Ok("")
           ELSE IF Truthy(seed)
           THEN Ok(" ORDER BY rand(" \o ToString(seed) \o ") LIMIT "
                   \o ToString(RoundOf(sample_size)))
           ELSE Ok(" TABLESAMPLE (" \o FloatStr(proportion * 100) \o " PERCENT) ")
      [] cls = "SQLiteDialect" ->
           IF proportion = Scale THEN Ok("")
           ELSE IF Truthy(seed)
           THEN Raise("NotImplementedError",
                      "SQLite does not support seeds in random "
                      \o "samples. Please remove the seed parameter.")
           ELSE Ok("ORDER BY RANDOM() LIMIT " \o ToString(IntOf(sample_size)))
      [] cls = "PostgresDialect" ->
           IF proportion = Scale THEN Ok("")
           ELSE IF Truthy(seed)
           THEN Raise("NotImplementedError",
                      "Postgres does not support seeds in random "
                      \o "samples. Please remove the seed parameter.")
           ELSE Ok("ORDER BY RANDOM() LIMIT " \o ToString(IntOf(sample_size)))
      [] OTHER ->
           Raise("NotImplementedError",
                 "Backend '" \o name(cls)
                 \o "' needs a random_sample_sql added to its dialect")

\* The keyword the two implementations of explode_arrays_sql differ in.
unnest_keyword(cls) == IF cls = "DuckDBDialect" THEN "unnest" ELSE "explode"

\* explode_arrays_sql of DuckDBDialect and SparkDialect: pop the last column
\* to explode, select its unnesting, the retained columns and the columns
\* still to explode from the subquery that explodes the rest.
RECURSIVE explode_arrays_nested(_, _, _, _)

\* explode_arrays_sql with the popped column not handed on as a column to
\* retain.
explode_arrays_popped_not_retained(cls, tbl_name, columns_to_explode, other_columns_to_retain) ==
    IF Len(columns_to_explode) = 0
    THEN "select " \o Join(other_columns_to_retain, ",") \o " from " \o tbl_name
    ELSE LET column_to_explode == columns_to_explode[Len(columns_to_explode)]
             rest == SubSeq(columns_to_explode, 1, Len(columns_to_explode) - 1)
             cols_to_select ==
                 <<unnest_keyword(cls) \o "(" \o column_to_explode \o ") as "
                   \o column_to_explode>>
                 \o other_columns_to_retain \o rest
         IN  "select " \o Join(cols_to_select, ",") \o "\n                from ("
             \o explode_arrays_nested(cls, tbl_name, rest, other_columns_to_retain)
             \o ")"

explode_arrays_nested(cls, tbl_name, columns_to_explode, other_columns_to_retain) ==
    IF Len(columns_to_explode) = 0
    THEN "select " \o Join(other_columns_to_retain, ",") \o " from " \o tbl_name
    ELSE LET column_to_explode == columns_to_explode[Len(columns_to_explode)]
             rest == SubSeq(columns_to_explode, 1, Len(columns_to_explode) - 1)
             cols_to_select ==
                 <<unnest_keyword(cls) \o "(" \o column_to_explode \o ") as "
                   \o column_to_explode>>
                 \o other_columns_to_retain \o rest
         IN  "select " \o Join(cols_to_select, ",") \o "\n                from ("
             \o explode_arrays_nested(cls, tbl_name, rest,
                    Append(other_columns_to_retain, column_to_explode))
             \o ")"

explode_arrays_sql(cls, tbl_name, columns_to_explode, other_columns_to_retain) ==
    IF cls \in {"DuckDBDialect", "SparkDialect"}
    THEN Ok(explode_arrays_nested(cls, tbl_name, columns_to_explode,
                                  other_columns_to_retain))
    ELSE Raise("NotImplementedError",
               "Unnesting blocking rules are not supported for " \o class_repr(cls))

\* array_intersect(clc), given the level's column expression names and its
\* min_intersection: only DuckDBDialect and PostgresDialect define it.
array_intersect(cls, name_l, name_r, threshold) ==
    CASE cls = "DuckDBDialect" ->
           Ok("list_unique(" \o name_l \o ") + list_unique(" \o name_r \o ")"
              \o " - list_unique(list_concat(" \o name_l \o ", " \o name_r \o "))"
              \o " >= " \o ToString(threshold))
      [] cls = "PostgresDialect" ->
           Ok("CARDINALITY(ARRAY_INTERSECT(" \o name_l \o ", " \o name_r \o ")) >= "
              \o ToString(threshold))
      [] OTHER -> NoAttribute(cls, "array_intersect")

\* infinity_expression: a property of every shipped class but AthenaDialect.
infinity_expression(cls) ==
    CASE cls = "DuckDBDialect" -> Ok("cast('infinity' as float8)")
      [] cls \in {"SparkDialect", "SQLiteDialect", "PostgresDialect"} ->
           Ok("'infinity'")
      [] OTHER -> NoAttribute(cls, "infinity_expression")

---------------------------------------------------------------------------
(* splink/dialects.py: the registry *)

\* __new__ without the lookup in _dialect_instances: every call allocates.
new_always_allocates(cls, insts, hp) ==
    [insts |-> [insts EXCEPT ![cls] = Len(hp) + 1],
     heap |-> Append(hp, cls),
     obj |-> Len(hp) + 1]

\* SplinkDialect.__new__(cls): the instance registered for cls, allocated and
\* registered on the first call.  Returns the new _dialect_instances, the
\* new heap and the object returned.
new(cls, insts, hp) ==
    IF insts[cls] = NoObj
    THEN [insts |-> [insts EXCEPT ![cls] = Len(hp) + 1],
          heap |-> Append(hp, cls),
          obj |-> Len(hp) + 1]
    ELSE [insts |-> insts, heap |-> hp, obj |-> insts[cls]]

\* The module-level _dialect_lookup = {"duckdb": DuckDBDialect(), ...}: the
\* five constructions in order, from the i-th on.
RECURSIVE load_dialect_lookup(_, _)
load_dialect_lookup(i, st) ==
    IF i > Len(BuiltinClasses) THEN st
    ELSE LET cls == BuiltinClasses[i]
             r == new(cls, st.insts, st.heap)
         IN  load_dialect_lookup(i + 1,
                 [insts |-> r.insts,
                  heap |-> r.heap,
                  lookup |-> [st.lookup EXCEPT ![BuiltinFactoryName(cls)] = r.obj]])

\* The state of the module once imported.
Imported ==
    load_dialect_lookup(1,
        [insts |-> [c \in Classes |-> NoObj],
         heap |-> <<>>,
         lookup |-> [n \in DialectNames |-> NoObj]])

\* The classes of `subs` whose _dialect_name_for_factory is dialect_name.
classes_from_dialect_name(subs, fname, dialect_name) ==
    SelectSeq(subs, LAMBDA c : fname[c] = dialect_name)

\* from_string that returns the first match when several classes match.
from_string_first_match(subs, fname, dialect_name, insts, hp) ==
    LET found == classes_from_dialect_name(subs, fname, dialect_name)
    IN  IF Len(found) >= 1
        THEN LET r == new(found[1], insts, hp)
             IN  [insts |-> r.insts, heap |-> r.heap, obj |-> r.obj, out |-> Ok("")]
        ELSE [insts |-> insts, heap |-> hp, obj |-> NoObj,
              out |-> Raise("ValueError",
                            "Could not find subclass of SplinkDialect with "
                            \o "lookup string '" \o dialect_name \o "'.")]

\* SplinkDialect.from_string(dialect_name)
from_string(subs, fname, dialect_name, insts, hp) ==
    LET found == classes_from_dialect_name(subs, fname, dialect_name)
    IN  IF Len(found) = 1
        THEN LET r == new(found[1], insts, hp)
             IN  [insts |-> r.insts, heap |-> r.heap, obj |-> r.obj, out |-> Ok("")]
        ELSE IF Len(found) > 1
        THEN [insts |-> insts, heap |-> hp, obj |-> NoObj,
              out |-> Raise("ValueError",
                            "Found multiple subclasses of SplinkDialect with "
                            \o "lookup string _dialect_name_for_factory equal to "
                            \o "supplied value " \o dialect_name \o ": "
                            \o Join([i \in 1..Len(found) |-> class_repr(found[i])],
                                    ", ")
                            \o "!")]
        ELSE [insts |-> insts, heap |-> hp, obj |-> NoObj,
              out |-> Raise("ValueError",
                            "Could not find subclass of SplinkDialect with "
                            \o "lookup string '" \o dialect_name \o "'.")]

---------------------------------------------------------------------------
(* splink/column_expression.py: the raw string of a ColumnExpression        *)
(* SqlglotColumnTreeBuilder, add_suffix_to_all_column_identifiers and the   *)
(* sqlglot library are not part of the sources read here: they are modelled *)
(* from their description.  Spark quotes identifiers with a backquote,      *)
(* written ~ in the strings below.                                          *)

\* s[i] as a one-character string.
CharAt(s, i) == SubSeq(s, i, i)

\* The least element of a non-empty set of integers.
Least(S) == CHOOSE j \in S : \A k \in S : j <= k

\* The first index >= i at which s holds the character c, or 0.
find_char(s, i, c) ==
    LET hits == {j \in i..Len(s) : CharAt(s, j) = c}
    IN  IF hits = {} THEN 0 ELSE Least(hits)

\* The last index of the run of characters of chars that starts at i.
run_end(s, i, chars) ==
    LET stops == {j \in (i + 1)..Len(s) : CharAt(s, j) \notin chars}
    IN  IF stops = {} THEN Len(s) ELSE Least(stops) - 1

\* The first index >= i at which the string t starts in s, or 0.
find_str(s, i, t) ==
    LET hits == {j \in i..(Len(s) - Len(t) + 1) : SubSeq(s, j, j + Len(t) - 1) = t}
    IN  IF hits = {} THEN 0 ELSE Least(hits)

\* s.replace(old, new): every occurrence of old_text, left to right.
RECURSIVE replace(_, _, _)
replace(s, old_text, new_text) ==
    LET at == find_str(s, 1, old_text)
    IN  IF at = 0 THEN s
        ELSE SubSeq(s, 1, at - 1) \o new_text
             \o replace(SubSeq(s, at + Len(old_text), Len(s)), old_text, new_text)

\* A search for any parenthesis, opening or closing.
search_any_parenthesis(s) == Contains(s, "(") \/ Contains(s, ")")

\* re.search(r"\([^)]*\)", s): an opening parenthesis, then characters other
\* than a closing one, then a closing parenthesis.
search_parenthesised(s) ==
    \E i \in 1..Len(s) :
        /\ CharAt(s, i) = "("
        /\ \E j \in (i + 1)..Len(s) :
               /\ CharAt(s, j) = ")"
               /\ \A k \in (i + 1)..(j - 1) : CharAt(s, k) # ")"

\* ColumnExpression.raw_sql_is_pure_column_or_column_reference
raw_sql_is_pure_column_or_column_reference(raw_sql_expression) ==
    IF search_parenthesised(raw_sql_expression) THEN FALSE
    ELSE IF Contains(raw_sql_expression, "||") THEN FALSE
    ELSE TRUE

\* SplinkDialect.sqlglot_name: the backend's name, presto for Athena.
sqlglot_name(cls) == IF cls = "AthenaDialect" THEN "presto" ELSE name(cls)

\* The identifier quote of a sqlglot dialect.
identifier_quote(sqlglot_dialect) ==
    IF sqlglot_dialect = "spark" THEN "~" ELSE "\""

\* SqlglotColumnTreeBuilder.from_raw_column_name_or_column_reference(...).sql:
\* the raw column name quoted as an identifier of the dialect.
from_raw_column_name_or_column_reference(raw, sqlglot_dialect) ==
    identifier_quote(sqlglot_dialect) \o raw \o identifier_quote(sqlglot_dialect)

\* ColumnExpression.parse_input_string(dialect)
parse_input_string(raw_sql_expression, cls) ==
    IF search_parenthesised(raw_sql_expression) THEN raw_sql_expression
    ELSE IF Contains(raw_sql_expression, "||") THEN raw_sql_expression
    ELSE from_raw_column_name_or_column_reference(raw_sql_expression,
                                                  sqlglot_name(cls))

IdentifierStart ==
    {"a", "b", "c", "d", "e", "f", "g", "h", "i", "j", "k", "l", "m", "n", "o",
     "p", "q", "r", "s", "t", "u", "v", "w", "x", "y", "z", "_",
     "A", "B", "C", "D", "E", "F", "G", "H", "I", "J", "K", "L", "M", "N", "O",
     "P", "Q", "R", "S", "T", "U", "V", "W", "X", "Y", "Z"}
IdentifierChars ==
    IdentifierStart \cup {"0", "1", "2", "3", "4", "5", "6", "7", "8", "9"}

\* add_suffix_to_all_column_identifiers(sql, suffix, dialect), from index i on:
\* a string literal is copied, a quoted identifier and a bare word get the
\* suffix, a word followed by an opening parenthesis is a function name and
\* is copied.
RECURSIVE add_suffix_from(_, _, _, _)
add_suffix_from(sql, i, suffix, quote) ==
    IF i > Len(sql) THEN ""
    ELSE LET c == CharAt(sql, i)
         IN  IF c = "'"
             THEN LET j == find_char(sql, i + 1, "'")
                      k == IF j = 0 THEN Len(sql) ELSE j
                  IN  SubSeq(sql, i, k) \o add_suffix_from(sql, k + 1, suffix, quote)
             ELSE IF c = quote
             THEN LET j == find_char(sql, i + 1, quote)
                      k == IF j = 0 THEN Len(sql) + 1 ELSE j
                  IN  SubSeq(sql, i, k - 1) \o suffix \o quote
                      \o add_suffix_from(sql, k + 1, suffix, quote)
             ELSE IF c \in IdentifierStart
             THEN LET k == run_end(sql, i, IdentifierChars)
                      is_function == k + 1 <= Len(sql) /\ CharAt(sql, k + 1) = "("
                  IN  SubSeq(sql, i, k) \o (IF is_function THEN "" ELSE suffix)
                      \o add_suffix_from(sql, k + 1, suffix, quote)
             ELSE c \o add_suffix_from(sql, i + 1, suffix, quote)

add_suffix_to_all_column_identifiers(sql, suffix, sqlglot_dialect) ==
    add_suffix_from(sql, 1, suffix, identifier_quote(sqlglot_dialect))

\* sqlglot.parse_one(sql).sql(dialect) of the three templates the transforms
\* render: the call with its function name in upper case.
sqlglot_sql(sql, sqlglot_dialect) ==
    CASE SubSeq(sql, 1, 6) = "lower(" ->
           "LOWER(" \o SubSeq(sql, 7, Len(sql))
      [] SubSeq(sql, 1, 10) = "substring(" ->
           "SUBSTRING(" \o SubSeq(sql, 11, Len(sql))
      [] SubSeq(sql, 1, 15) = "regexp_extract(" ->
           "REGEXP_EXTRACT(" \o SubSeq(sql, 16, Len(sql))
      [] OTHER -> sql

---------------------------------------------------------------------------
(* splink/column_expression.py: the transforms *)

\* One entry of an operations list: the bound method or partial appended by a
\* transform, with the arguments the partial fixes and the object it is
\* bound to.
Operation(kind, start, end, pattern, date_format, self) ==
    [kind |-> kind, start |-> start, end |-> end, pattern |-> pattern,
     date_format |-> date_format, self |-> self]

lower_dialected(nm, cls) ==
    Ok(replace(sqlglot_sql("lower(___col___)", sqlglot_name(cls)), "___col___", nm))

substr_dialected(nm, start, end, cls) ==
    Ok(replace(sqlglot_sql("substring(___col___, " \o ToString(start) \o ", "
                           \o ToString(end) \o ")", sqlglot_name(cls)),
               "___col___", nm))

regex_extract_dialected(nm, pattern, cls) ==
    Ok(replace(sqlglot_sql("regexp_extract(___col___, '" \o pattern \o "')",
                           sqlglot_name(cls)),
               "___col___", nm))

try_parse_date_dialected(nm, cls, date_format) ==
    try_parse_date(cls, nm, date_format)

\* op(name=name, dialect=dialect)
call_operation(op, nm, cls) ==
    CASE op.kind = "lower" -> lower_dialected(nm, cls)
      [] op.kind = "substr" -> substr_dialected(nm, op.start, op.end, cls)
      [] op.kind = "regex_extract" -> regex_extract_dialected(nm, op.pattern, cls)
      [] OTHER -> try_parse_date_dialected(nm, cls, op.date_format)

\* ColumnExpression.apply_operations with the operations applied last to first.
RECURSIVE apply_operations_reversed(_, _, _)
apply_operations_reversed(operations, r, cls) ==
    IF Len(operations) = 0 \/ r.kind = "raise" THEN r
    ELSE apply_operations_reversed(
             SubSeq(operations, 1, Len(operations) - 1),
             call_operation(operations[Len(operations)], r.text, cls), cls)

\* ColumnExpression.apply_operations(name, dialect): each operation of the
\* list in turn is given the text the one before it returned; an operation
\* that raises ends the loop.
RECURSIVE apply_operations(_, _, _)
apply_operations(operations, r, cls) ==
    IF Len(operations) = 0 \/ r.kind = "raise" THEN r
    ELSE apply_operations(Tail(operations),
                          call_operation(operations[1], r.text, cls), cls)

---------------------------------------------------------------------------
(* splink/column_expression.py: the objects.  An expression's operations    *)
(* attribute is a reference to a list: operation_lists[id].                  *)

\* _clone with the copy of the operations list left out: copy(self) alone.
clone_aliased(exprs, lists, e) ==
    [expressions |-> Append(exprs, exprs[e]),
     lists |-> lists,
     obj |-> Len(exprs) + 1]

\* ColumnExpression.__init__(sql_expression, sql_dialect): a new object with
\* a new empty list; sql_dialect "None" leaves the attribute unset.
init(exprs, lists, sql_expression, sql_dialect) ==
    [expressions |-> Append(exprs, [raw_sql_expression |-> sql_expression,
                                    operations |-> Len(lists) + 1,
                                    sql_dialect |-> sql_dialect]),
     lists |-> Append(lists, <<>>),
     obj |-> Len(exprs) + 1]

\* ColumnExpression._clone(): a shallow copy of the object whose operations
\* attribute is then set to a new list holding the same operations.
clone(exprs, lists, e) ==
    [expressions |-> Append(exprs, [exprs[e] EXCEPT !.operations = Len(lists) + 1]),
     lists |-> Append(lists, lists[exprs[e].operations]),
     obj |-> Len(exprs) + 1]

\* clone.operations.append(op) on the clone c of a transform.
append_operation(c, op) ==
    [c EXCEPT !.lists[c.expressions[c.obj].operations] = Append(@, op)]

NoDialectBound ==
    Raise("AttributeError",
          "'ColumnExpression' object has no attribute 'sql_dialect'")

\* ColumnExpression.name
expression_name(exprs, lists, e) ==
    IF exprs[e].sql_dialect = "None" THEN NoDialectBound
    ELSE LET sql_expression == parse_input_string(exprs[e].raw_sql_expression,
                                                  exprs[e].sql_dialect)
         IN  apply_operations(lists[exprs[e].operations], Ok(sql_expression),
                              exprs[e].sql_dialect)

\* name_l with the suffix given to the first identifier only.
expression_name_l_first_identifier(exprs, lists, e) ==
    IF exprs[e].sql_dialect = "None" THEN NoDialectBound
    ELSE LET sql_expression == parse_input_string(exprs[e].raw_sql_expression,
                                                  exprs[e].sql_dialect)
             first_end == IF Contains(sql_expression, " ")
                          THEN find_char(sql_expression, 1, " ") - 1
                          ELSE Len(sql_expression)
             base_name == add_suffix_to_all_column_identifiers(
                              SubSeq(sql_expression, 1, first_end), "_l",
                              sqlglot_name(exprs[e].sql_dialect))
                          \o SubSeq(sql_expression, first_end + 1, Len(sql_expression))
         IN  apply_operations(lists[exprs[e].operations], Ok(base_name),
                              exprs[e].sql_dialect)

\* ColumnExpression.name_l
expression_name_l(exprs, lists, e) ==
    IF exprs[e].sql_dialect = "None" THEN NoDialectBound
    ELSE LET sql_expression == parse_input_string(exprs[e].raw_sql_expression,
                                                  exprs[e].sql_dialect)
             base_name == add_suffix_to_all_column_identifiers(
                              sql_expression, "_l",
                              sqlglot_name(exprs[e].sql_dialect))
         IN  apply_operations(lists[exprs[e].operations], Ok(base_name),
                              exprs[e].sql_dialect)

\* ColumnExpression.name_r
expression_name_r(exprs, lists, e) ==
    IF exprs[e].sql_dialect = "None" THEN NoDialectBound
    ELSE LET sql_expression == parse_input_string(exprs[e].raw_sql_expression,
                                                  exprs[e].sql_dialect)
             base_name == add_suffix_to_all_column_identifiers(
                              sql_expression, "_r",
                              sqlglot_name(exprs[e].sql_dialect))
         IN  apply_operations(lists[exprs[e].operations], Ok(base_name),
                              exprs[e].sql_dialect)

\* No property of an expression read yet.
NoRead ==
    [prop |-> "", expr |-> 0, obj |-> 0, raw |-> "", pure |-> FALSE,
     out |-> Ok(""), out_l |-> Ok(""), out_r |-> Ok("")]

\* No ColumnExpression created yet.
NoExpressions ==
    /\ expressions = <<>>
    /\ operation_lists = <<>>
    /\ compiled = NoRead

---------------------------------------------------------------------------
(* splink/estimate_u.py: the sampling arithmetic *)

\* floor(sqrt(n)) by bisection on lo..hi, for 0 <= n < 2^31.
RECURSIVE isqrt_between(_, _, _)
isqrt_between(n, lo, hi) ==
    IF lo >= hi THEN lo
    ELSE LET mid == (lo + hi + 1) \div 2
         IN  IF mid * mid <= n THEN isqrt_between(n, mid, hi)
             ELSE isqrt_between(n, lo, mid - 1)

\* x ** 0.5 of a float in fixed point: floor(sqrt(x / Scale) * Scale).
sqrt_fixed(x) == isqrt_between(x * Scale, 0, 46340)

RECURSIVE sum(_)
sum(counts) == IF Len(counts) = 0 THEN 0 ELSE counts[1] + sum(Tail(counts))

RECURSIVE sum_of_squares(_)
sum_of_squares(counts) ==
    IF Len(counts) = 0 THEN 0
    ELSE counts[1] * counts[1] + sum_of_squares(Tail(counts))

\* _rows_needed_for_n_pairs(n_pairs) = 0.5 * ((8 * n_pairs + 1) ** 0.5 + 1),
\* a float in fixed point.
rows_needed_for_n_pairs(n_pairs) ==
    (sqrt_fixed((8 * n_pairs + 1) * Scale) + Scale) \div 2

\* total_links with the pairs of a row with a row of its own dataset counted
\* too.
total_links_within_datasets(row_counts_individual_dfs) ==
    (sum(row_counts_individual_dfs) * sum(row_counts_individual_dfs) * Scale) \div 2

\* lines 41-44: total_links = (sum(counts) ** 2 - sum(count ** 2)) / 2, the
\* true division of an integer by 2, a float in fixed point.
total_links(row_counts_individual_dfs) ==
    ((sum(row_counts_individual_dfs) * sum(row_counts_individual_dfs)
      - sum_of_squares(row_counts_individual_dfs)) * Scale) \div 2

\* _proportion_sample_size_link_only with total_links halved once more.
proportion_sample_size_links_halved(row_counts_individual_dfs, max_pairs) ==
    LET twice_links == sum(row_counts_individual_dfs) * sum(row_counts_individual_dfs)
                       - sum_of_squares(row_counts_individual_dfs)
        total_nodes == sum(row_counts_individual_dfs)
    IN  IF twice_links = 0
        THEN [exc |-> "ZeroDivisionError", total_links |-> 0,
              proportion |-> 0, sample_size |-> 0]
        ELSE LET proportion ==
                     isqrt_between((4 * max_pairs * Scale * Scale) \div twice_links,
                                   0, 46340)
             IN  [exc |-> "", total_links |-> (twice_links * Scale) \div 4,
                  proportion |-> proportion,
                  sample_size |-> proportion * total_nodes]

\* _proportion_sample_size_link_only(row_counts_individual_dfs, max_pairs):
\* the pair (proportion, sample_size) in fixed point, or ZeroDivisionError
\* when total_links is 0.
proportion_sample_size_link_only(row_counts_individual_dfs, max_pairs) ==
    LET links == total_links(row_counts_individual_dfs)
        total_nodes == sum(row_counts_individual_dfs)
    IN  IF links = 0
        THEN [exc |-> "ZeroDivisionError", total_links |-> links,
              proportion |-> 0, sample_size |-> 0]
        ELSE LET scaled == max_pairs * Scale * Scale
                 \* floor(scaled * Scale / links) without leaving 32 bits
                 ratio == (scaled \div links) * Scale
                          + ((scaled % links) * Scale) \div links
                 proportion == isqrt_between(ratio, 0, 46340)
             IN  [exc |-> "", total_links |-> links, proportion |-> proportion,
                  sample_size |-> proportion * total_nodes]

---------------------------------------------------------------------------
(* The collaborators of estimate_u_values: the linker's pipeline and the    *)
(* backend's result handles                                                *)

Runs == {1, 2}

\* A queued statement: its output table, the tables its SQL reads, and the
\* run whose call of estimate_u_values enqueued it.
Statement(output, reads, r) == [output |-> output, reads |-> reads, by |-> r]

\* linker._enqueue_sql(sql, output_table_name)
enqueue_sql(lk, stmt) == [lk EXCEPT !.queue = Append(@, stmt)]

\* The result handle of a materialised table: its templated name, the run
\* that obtained it and how often it was dropped.
Handle(table, r) == [table |-> table, by |-> r, drops |-> 0]

\* Whether every statement of the queue reads only seed tables and outputs
\* of statements queued before it.
resolves(queue, seed_tables) ==
    \A i \in 1..Len(queue) :
        queue[i].reads \subseteq (seed_tables \cup {queue[j].output : j \in 1..(i - 1)})

\* linker._execute_sql_pipeline(input_dataframes): runs the queued statements
\* in order as one pipeline, hands out a handle on the last output table and
\* empties the queue whether or not the backend fails.  The backend fails
\* when a statement reads an undefined table, and may fail anyway (healthy).
execute_sql_pipeline(lk, seeds, handles, r, healthy) ==
    LET ok == healthy /\ resolves(lk.queue, {handles[h].table : h \in seeds})
    IN  [ok |-> ok,
         linker |-> [lk EXCEPT !.queue = <<>>],
         handles |-> IF ok
                     THEN Append(handles, Handle(lk.queue[Len(lk.queue)].output, r))
                     ELSE handles,
         handle |-> IF ok THEN Len(handles) + 1 ELSE 0,
         pipeline |-> [i \in 1..Len(lk.queue) |-> lk.queue[i].output]]

\* SplinkDataFrame.drop_table_from_database_and_remove_from_cache()
drop_table(handles, h) == [handles EXCEPT ![h].drops = @ + 1]

\* block_using_rules_sqls(training_linker): in random-sample training mode
\* the blocked pairs are built from the sampled table.
block_using_rules_sqls(r) ==
    <<Statement("__splink__df_blocked", {"__splink__df_concat_with_tf_sample"}, r)>>

\* linker._random_sample_sql: the linker's dialect decides.
linker_random_sample_sql(lk, proportion, sample_size, seed) ==
    random_sample_sql(
        CHOOSE c \in Range(BuiltinClasses) : BuiltinFactoryName(c) = lk.sql_dialect,
        proportion, sample_size, seed)

\* append_u_probability_to_comparison_level_trained_probabilities(cl, ...)
append_u_probability(cl, r) ==
    [cl EXCEPT !.trained_u = Append(@, [description |-> "estimate u by random sampling",
                                        by |-> r])]

---------------------------------------------------------------------------
(* The caller's linker and the frames of estimate_u_values *)

LinkTypes == {"dedupe_only", "link_and_dedupe", "link_only"}

\* The row counts of the input datasets the backend may hold.
RowCounts == {<<0>>, <<3>>, <<2, 2>>}

\* The max_pairs a caller may pass: below and above the 1e4 of line 121.
MaxPairs == {1, 10001}

Seeds == {None} \cup 0..MaxSeed

\* One comparison: its null level, a level with a term-frequency adjustment
\* column and a level without.
ComparisonLevels ==
    <<[is_null_level |-> TRUE, tf_adjustment_column |-> "None", trained_u |-> <<>>],
      [is_null_level |-> FALSE, tf_adjustment_column |-> "first_name", trained_u |-> <<>>],
      [is_null_level |-> FALSE, tf_adjustment_column |-> "None", trained_u |-> <<>>]>>

Settings(link_type, levels, rules) ==
    [link_type |-> link_type,
     retain_matching_columns |-> TRUE,
     retain_intermediate_calculation_columns |-> TRUE,
     comparison_levels |-> levels,
     blocking_rules_to_generate_predictions |-> rules]

\* A linker as its constructor leaves it.  repartition_after_blocking is an
\* attribute of the Spark linker alone: FALSE is getattr's default.
Linker(link_type, sql_dialect, repartition_after_blocking) ==
    [settings_obj |->
         Settings(link_type, ComparisonLevels,
                  <<[blocking_rule |-> "l.surname = r.surname", salted |-> FALSE]>>),
     queue |-> <<>>,
     sql_dialect |-> sql_dialect,
     repartition_after_blocking |-> repartition_after_blocking,
     train_u_using_random_sample_mode |-> FALSE]

\* A name not bound yet: no linker.
NoLinker ==
    [settings_obj |-> Settings("", <<>>, <<>>),
     queue |-> <<>>,
     sql_dialect |-> "",
     repartition_after_blocking |-> FALSE,
     train_u_using_random_sample_mode |-> FALSE]

\* What a training run is to leave alone on the caller's linker.
Kept(lk) ==
    [retain_matching_columns |-> lk.settings_obj.retain_matching_columns,
     retain_intermediate_calculation_columns |->
         lk.settings_obj.retain_intermediate_calculation_columns,
     tf_adjustment_columns |->
         [i \in 1..Len(lk.settings_obj.comparison_levels) |->
             lk.settings_obj.comparison_levels[i].tf_adjustment_column],
     blocking_rules |-> lk.settings_obj.blocking_rules_to_generate_predictions,
     queue |-> lk.queue]

\* The frame of a call of estimate_u_values that has not started.
IdleFrame ==
    [pc |-> "idle", exc |-> "", max_pairs |-> 0, seed |-> None,
     training_linker |-> NoLinker,
     nodes_with_tf |-> 0, dataframe |-> 0, df_sample |-> 0, df_blocked |-> 0,
     df_params |-> 0, sample_dataframe |-> 0,
     total_nodes |-> 0, proportion |-> 0, sample_size |-> 0,
     submitted |-> <<>>, params_pipeline |-> <<>>, kept |-> Kept(NoLinker)]

Fail(fr, exc) == [fr EXCEPT !.pc = "failed", !.exc = exc]

\* lines 83-105: the proportion and the sample size from the row counts the
\* count query returned, before the clamps; ZeroDivisionError on an input
\* without rows or without pairs.
sampling_values(link_type, row_counts, max_pairs) ==
    IF link_type = "link_only"
    THEN LET frame_counts == SelectSeq(row_counts, LAMBDA n : n > 0)
             p == proportion_sample_size_link_only(frame_counts, max_pairs)
         IN  [exc |-> p.exc, total_links |-> p.total_links,
              proportion |-> p.proportion,
              sample_size |-> p.sample_size, total_nodes |-> sum(frame_counts)]
    ELSE LET total_nodes == sum(row_counts)
             sample_size == rows_needed_for_n_pairs(max_pairs)
         IN  IF total_nodes = 0
             THEN [exc |-> "ZeroDivisionError", total_links |-> 0,
                   proportion |-> 0,
                   sample_size |-> 0, total_nodes |-> 0]
             ELSE [exc |-> "", total_links |-> 0,
                   proportion |-> sample_size \div total_nodes,
                   sample_size |-> sample_size, total_nodes |-> total_nodes]

\* lines 107-111 with the clamp of the sample size left out.
clamped_proportion_only(plan) ==
    [plan EXCEPT !.proportion = IF @ >= Scale THEN Scale ELSE @]

\* lines 107-111: the proportion is clamped to 1.0 and the sample size to
\* the total number of rows, whichever branch computed them.
clamped(plan) ==
    [plan EXCEPT
       !.proportion = IF @ >= Scale THEN Scale ELSE @,
       !.sample_size = IF @ > plan.total_nodes * Scale
                       THEN plan.total_nodes * Scale ELSE @]

\* lines 83-111: the values handed to the sampling clause.
sampling_plan(link_type, row_counts, max_pairs) ==
    clamped(sampling_values(link_type, row_counts, max_pairs))

\* No sampling computed yet.
NoSample ==
    [link_type |-> "", row_counts |-> <<>>, max_pairs |-> 0, exc |-> "",
     total_nodes |-> 0, total_links |-> 0,
     returned_proportion |-> 0, returned_sample_size |-> 0,
     proportion |-> 0, sample_size |-> 0]

---------------------------------------------------------------------------
(* splink/estimate_u.py: estimate_u_values(linker, max_pairs, seed), one     *)
(* action per stretch of the function between its calls on shared state     *)

\* line 58: nodes_with_tf = linker._initialise_df_concat_with_tf()
Start(r, max_pairs, seed) ==
    /\ run[r].pc = "idle"
    /\ run' = [run EXCEPT ![r] =
                 [@ EXCEPT !.pc = "clone", !.max_pairs = max_pairs, !.seed = seed,
                           !.nodes_with_tf = backend.nodes_with_tf,
                           !.kept = Kept(linker)]]
    /\ UNCHANGED <<linker, backend, dialect_vars, expression_vars, sampling_vars>>

\* lines 60-72: the training linker is a deep copy of the caller's, with the
\* retain flags and the term-frequency adjustment columns switched off.
Clone(r) ==
    /\ run[r].pc = "clone"
    /\ LET settings_obj ==
             [linker.settings_obj EXCEPT
                !.retain_matching_columns = FALSE,
                !.retain_intermediate_calculation_columns = FALSE,
                !.comparison_levels =
                    [i \in 1..Len(@) |-> [@[i] EXCEPT !.tf_adjustment_column = "None"]]]
           training_linker ==
             [linker EXCEPT !.train_u_using_random_sample_mode = TRUE,
                            !.settings_obj = settings_obj]
       IN  run' = [run EXCEPT ![r] =
                     [@ EXCEPT !.pc = "count", !.training_linker = training_linker]]
    /\ UNCHANGED <<linker, backend, dialect_vars, expression_vars, sampling_vars>>

\* lines 74-81 and 89-96: the count query is enqueued on the training linker
\* and executed.
CountRows(r, healthy) ==
    /\ run[r].pc = "count"
    /\ LET fr == run[r]
           queued == enqueue_sql(fr.training_linker,
                         Statement("__splink__df_concat_count",
                                   {"__splink__df_concat_with_tf"}, r))
           x == execute_sql_pipeline(queued, {fr.nodes_with_tf}, backend.handles,
                                     r, healthy)
           after == [fr EXCEPT !.training_linker = x.linker,
                               !.submitted = @ \o x.pipeline,
                               !.dataframe = x.handle]
       IN  /\ run' = [run EXCEPT ![r] =
                        IF x.ok THEN [after EXCEPT !.pc = "sample_size"]
                        ELSE Fail(after, "ExecutorError")]
           /\ backend' = [backend EXCEPT !.handles = x.handles]
    /\ UNCHANGED <<linker, dialect_vars, expression_vars, sampling_vars>>

\* lines 83-87 and 97-111: the count is read, its table dropped, and the
\* proportion and the sample size computed and clamped.
SampleSize(r) ==
    /\ run[r].pc = "sample_size"
    /\ LET fr == run[r]
           plan == sampling_plan(fr.training_linker.settings_obj.link_type,
                                 backend.row_counts, fr.max_pairs)
       IN  run' = [run EXCEPT ![r] =
                     IF plan.exc # "" THEN Fail(fr, plan.exc)
                     ELSE [fr EXCEPT !.pc = "sample",
                                     !.total_nodes = plan.total_nodes,
                                     !.proportion = plan.proportion,
                                     !.sample_size = plan.sample_size]]
    /\ backend' = [backend EXCEPT !.handles = drop_table(@, run[r].dataframe)]
    /\ UNCHANGED <<linker, dialect_vars, expression_vars, sampling_vars>>

\* lines 113-119 with the sampling statement enqueued before its clause is
\* asked of the dialect.
sample_statement_enqueued_first(fr, r) ==
    LET clause == linker_random_sample_sql(fr.training_linker, fr.proportion,
                                           fr.sample_size, fr.seed)
        queued == enqueue_sql(fr.training_linker,
                      Statement("__splink__df_concat_with_tf_sample",
                                {"__splink__df_concat_with_tf"}, r))
    IN  [exc |-> IF clause.kind = "raise" THEN clause.exc ELSE "",
         linker |-> queued]

\* lines 113-118: the sampling clause is asked of the dialect, which may
\* raise; only then is the sampling statement enqueued.
sample_statement(fr, r) ==
    LET clause == linker_random_sample_sql(fr.training_linker, fr.proportion,
                                           fr.sample_size, fr.seed)
    IN  IF clause.kind = "raise"
        THEN [exc |-> clause.exc, linker |-> fr.training_linker]
        ELSE [exc |-> "",
              linker |-> enqueue_sql(fr.training_linker,
                             Statement("__splink__df_concat_with_tf_sample",
                                       {"__splink__df_concat_with_tf"}, r))]

\* lines 113-119: the sampling statement is built, enqueued and executed.
Sample(r, healthy) ==
    /\ run[r].pc = "sample"
    /\ LET fr == run[r]
           built == sample_statement(fr, r)
           x == execute_sql_pipeline(built.linker, {fr.nodes_with_tf},
                                     backend.handles, r, healthy)
           after == [fr EXCEPT !.training_linker = x.linker,
                               !.submitted = @ \o x.pipeline,
                               !.df_sample = x.handle]
       IN  IF built.exc # ""
           THEN /\ run' = [run EXCEPT ![r] =
                             Fail([fr EXCEPT !.training_linker = built.linker],
                                  built.exc)]
                /\ UNCHANGED <<backend, dialect_vars, expression_vars, sampling_vars>>
           ELSE /\ run' = [run EXCEPT ![r] =
                             IF x.ok THEN [after EXCEPT !.pc = "block"]
                             ELSE Fail(after, "ExecutorError")]
                /\ backend' = [backend EXCEPT !.handles = x.handles]
    /\ UNCHANGED <<linker, dialect_vars, expression_vars, sampling_vars>>

\* enqueue_sql for each statement of a list, in order.
RECURSIVE enqueue_all(_, _)
enqueue_all(lk, stmts) ==
    IF Len(stmts) = 0 THEN lk
    ELSE enqueue_all(enqueue_sql(lk, stmts[1]), Tail(stmts))

\* lines 121-134: the training settings get the salted 1=1 rule on duckdb
\* above 1e4 pairs and no rule otherwise; the blocking SQL is enqueued.
Block(r) ==
    /\ run[r].pc = "block"
    /\ LET fr == run[r]
           rules == IF linker.sql_dialect = "duckdb" /\ fr.max_pairs > 10000
                    THEN <<[blocking_rule |-> "1=1", salted |-> TRUE]>>
                    ELSE <<>>
           with_rules ==
               [fr.training_linker EXCEPT
                  !.settings_obj.blocking_rules_to_generate_predictions = rules]
       IN  run' = [run EXCEPT ![r] =
                     [fr EXCEPT !.pc = "repartition",
                                !.training_linker =
                                    enqueue_all(with_rules, block_using_rules_sqls(r))]]
    /\ UNCHANGED <<linker, backend, dialect_vars, expression_vars, sampling_vars>>

\* lines 137-144: with repartition_after_blocking the blocking SQL is
\* executed on its own and its result seeds the rest.
Repartition(r, healthy) ==
    /\ run[r].pc = "repartition"
    /\ LET fr == run[r]
           x == execute_sql_pipeline(fr.training_linker, {fr.df_sample},
                                     backend.handles, r, healthy)
           after == [fr EXCEPT !.training_linker = x.linker,
                               !.submitted = @ \o x.pipeline,
                               !.df_blocked = x.handle,
                               !.sample_dataframe = x.handle]
       IN  IF fr.training_linker.repartition_after_blocking
           THEN /\ run' = [run EXCEPT ![r] =
                             IF x.ok THEN [after EXCEPT !.pc = "vectors"]
                             ELSE Fail(after, "ExecutorError")]
                /\ backend' = [backend EXCEPT !.handles = x.handles]
           ELSE /\ healthy
                /\ run' = [run EXCEPT ![r] =
                             [fr EXCEPT !.pc = "vectors",
                                        !.sample_dataframe = fr.df_sample]]
                /\ UNCHANGED <<backend, dialect_vars, expression_vars, sampling_vars>>
    /\ UNCHANGED <<linker, dialect_vars, expression_vars, sampling_vars>>

\* lines 146-157: the comparison-vector and the predict statements are
\* enqueued on the training linker.
EnqueueVectors(r) ==
    /\ run[r].pc = "vectors"
    /\ run' = [run EXCEPT ![r] =
                 [@ EXCEPT !.pc = "counts",
                           !.training_linker =
                               enqueue_all(@,
                                   <<Statement("__splink__df_comparison_vectors",
                                               {"__splink__df_blocked"}, r),
                                     Statement("__splink__df_predict",
                                               {"__splink__df_comparison_vectors"},
                                               r)>>)]]
    /\ UNCHANGED <<linker, backend, dialect_vars, expression_vars, sampling_vars>>

\* lines 159-163: the m/u count statement is enqueued with
\* linker._enqueue_sql, on the caller's linker.
EnqueueCounts(r) ==
    /\ run[r].pc = "counts"
    /\ linker' = enqueue_sql(linker,
                     Statement("__splink__m_u_counts", {"__splink__df_predict"}, r))
    /\ run' = [run EXCEPT ![r] = [@ EXCEPT !.pc = "params"]]
    /\ UNCHANGED <<backend, dialect_vars, expression_vars, sampling_vars>>

\* line 164: df_params = training_linker._execute_sql_pipeline(sample_dataframe)
ExecParams(r, healthy) ==
    /\ run[r].pc = "params"
    /\ LET fr == run[r]
           x == execute_sql_pipeline(fr.training_linker, {fr.sample_dataframe},
                                     backend.handles, r, healthy)
           after == [fr EXCEPT !.training_linker = x.linker,
                               !.submitted = @ \o x.pipeline,
                               !.params_pipeline = x.pipeline,
                               !.df_params = x.handle]
       IN  /\ run' = [run EXCEPT ![r] =
                        IF x.ok THEN [after EXCEPT !.pc = "read_params"]
                        ELSE Fail(after, "ExecutorError")]
           /\ backend' = [backend EXCEPT !.handles = x.handles]
    /\ UNCHANGED <<linker, dialect_vars, expression_vars, sampling_vars>>

\* lines 166-169: the counts are read, and df_params and df_sample dropped.
ReadParams(r) ==
    /\ run[r].pc = "read_params"
    /\ run' = [run EXCEPT ![r] = [@ EXCEPT !.pc = "write_u"]]
    /\ backend' = [backend EXCEPT
                     !.handles = drop_table(drop_table(@, run[r].df_params),
                                            run[r].df_sample)]
    /\ UNCHANGED <<linker, dialect_vars, expression_vars, sampling_vars>>

\* lines 171-185: each level but the null level of the original settings
\* object gets the estimated u-probability appended.
WriteU(r) ==
    /\ run[r].pc = "write_u"
    /\ linker' = [linker EXCEPT
                    !.settings_obj.comparison_levels =
                        [i \in 1..Len(@) |->
                            IF @[i].is_null_level THEN @[i]
                            ELSE append_u_probability(@[i], r)]]
    /\ run' = [run EXCEPT ![r] = [@ EXCEPT !.pc = "done"]]
    /\ UNCHANGED <<backend, dialect_vars, expression_vars, sampling_vars>>

\* A step of run r.
Step(r) ==
    \/ \E max_pairs \in MaxPairs, seed \in Seeds : Start(r, max_pairs, seed)
    \/ Clone(r)
    \/ \E healthy \in BOOLEAN : CountRows(r, healthy)
    \/ SampleSize(r)
    \/ \E healthy \in BOOLEAN : Sample(r, healthy)
    \/ Block(r)
    \/ \E healthy \in BOOLEAN : Repartition(r, healthy)
    \/ EnqueueVectors(r)
    \/ EnqueueCounts(r)
    \/ \E healthy \in BOOLEAN : ExecParams(r, healthy)
    \/ ReadParams(r)
    \/ WriteU(r)

\* The dialect layer as the import of splink.dialects leaves it.
DialectsImported ==
    /\ dialect_instances = Imported.insts
    /\ heap = Imported.heap
    /\ dialect_lookup = Imported.lookup
    /\ subclasses = BuiltinClasses
    /\ factory_name = [c \in Classes |-> BuiltinFactoryName(c)]

NoCall ==
    [op |-> "", cls |-> "", key |-> "", capture_group |-> 0, proportion |-> 0,
     sample_size |-> 0, seed |-> None, columns_to_explode |-> <<>>,
     other_columns_to_retain |-> <<>>, out |-> Ok(""), obj |-> NoObj]

\* A linker of any link type on any backend, over any of the inputs; the
\* backend holds the concatenated input table.
InitRun ==
    /\ \E link_type \in LinkTypes, sql_dialect \in DialectNames,
          repartition_after_blocking \in BOOLEAN :
          /\ repartition_after_blocking => sql_dialect = "spark"
          /\ linker = Linker(link_type, sql_dialect, repartition_after_blocking)
    /\ run = [r \in Runs |-> IdleFrame]
    /\ \E row_counts \in RowCounts :
          backend = [handles |-> <<Handle("__splink__df_concat_with_tf", 0)>>,
                     nodes_with_tf |-> 1,
                     row_counts |-> row_counts]

Init ==
    /\ DialectsImported
    /\ ret = NoCall
    /\ InitRun
    /\ NoExpressions
    /\ sampled = NoSample

\* One call of estimate_u_values.
Next == Step(1)

Spec == Init /\ [][Next]_vars

\* Two calls of estimate_u_values on the same linker, their steps interleaved.
NextConcurrent == \E r \in Runs : Step(r)

SpecConcurrent == Init /\ [][NextConcurrent]_vars

---------------------------------------------------------------------------
(* Calls on the dialect layer *)

FunctionNames ==
    {"levenshtein_function_name", "damerau_levenshtein_function_name",
     "jaro_function_name", "jaro_winkler_function_name", "jaccard_function_name"}

\* The keys from_string is called with: the shipped names and two others.
FactoryKeys == DialectNames \cup {"mysql", "presto"}

\* The _dialect_name_for_factory a user-defined subclass may declare: a
\* shipped name again, a name of its own, or none.
UserFactoryNames == {"duckdb", "mysql", "None"}

DateFormats == {"None", "%d/%m/%Y"}

\* proportion arguments: a quarter, a half and 1.0.
Proportions == {Scale \div 4, Scale \div 2, Scale}

\* sample_size arguments: 0.0, 1.5, 2.5 and 10.0.
SampleSizes == {0, (3 * Scale) \div 2, (5 * Scale) \div 2, 10 * Scale}

ExplodeColumns == <<"tags", "emails", "phones", "aliases">>

\* other_columns_to_retain arguments: columns that are not exploded, and a
\* list that names an exploded column again.
RetainedColumns == {<<"unique_id">>, <<"unique_id", "dob">>, <<"unique_id", "tags">>}

Call(op, cls) == [NoCall EXCEPT !.op = op, !.cls = cls]

\* cls(): a direct construction of a dialect class.
Construct(cls) ==
    /\ cls \in Range(subclasses)
    /\ LET r == new(cls, dialect_instances, heap)
       IN  /\ dialect_instances' = r.insts
           /\ heap' = r.heap
           /\ ret' = [Call("new", cls) EXCEPT !.obj = r.obj]
    /\ UNCHANGED <<subclasses, factory_name, dialect_lookup, run_vars, expression_vars, sampling_vars>>

\* SplinkDialect.from_string(key)
FromString(key) ==
    /\ LET r == from_string(subclasses, factory_name, key, dialect_instances, heap)
       IN  /\ dialect_instances' = r.insts
           /\ heap' = r.heap
           /\ ret' = [Call("from_string", "") EXCEPT
                        !.key = key, !.out = r.out, !.obj = r.obj,
                        !.cls = IF r.obj = NoObj THEN "" ELSE r.heap[r.obj]]
    /\ UNCHANGED <<subclasses, factory_name, dialect_lookup, run_vars, expression_vars, sampling_vars>>

\* class UserDialectN(SplinkDialect): _dialect_name_for_factory = fname
DefineSubclass(fname) ==
    /\ Len(subclasses) < Len(BuiltinClasses) + MaxUserSubclasses
    /\ LET cls == UserClass(Len(subclasses) - Len(BuiltinClasses) + 1)
       IN  /\ subclasses' = Append(subclasses, cls)
           /\ factory_name' = [factory_name EXCEPT ![cls] = fname]
           /\ ret' = [Call("class", cls) EXCEPT !.key = fname]
    /\ UNCHANGED <<dialect_instances, heap, dialect_lookup, run_vars, expression_vars, sampling_vars>>

\* One of the five string-distance function name properties.
FunctionName(cls, which) ==
    /\ ret' = [Call(which, cls) EXCEPT
                 !.key = which,
                 !.out = CASE which = "levenshtein_function_name" ->
                                levenshtein_function_name(cls)
                           [] which = "damerau_levenshtein_function_name" ->
                                damerau_levenshtein_function_name(cls)
                           [] which = "jaro_function_name" -> jaro_function_name(cls)
                           [] which = "jaro_winkler_function_name" ->
                                jaro_winkler_function_name(cls)
                           [] OTHER -> jaccard_function_name(cls)]
    /\ UNCHANGED <<dialect_instances, heap, subclasses, factory_name,
                   dialect_lookup, run_vars, expression_vars, sampling_vars>>

TryParseDate(cls, date_format) ==
    /\ ret' = [Call("try_parse_date", cls) EXCEPT
                 !.key = date_format,
                 !.out = try_parse_date(cls, "dob", date_format)]
    /\ UNCHANGED <<dialect_instances, heap, subclasses, factory_name,
                   dialect_lookup, run_vars, expression_vars, sampling_vars>>

RegexExtract(cls, capture_group) ==
    /\ ret' = [Call("regex_extract", cls) EXCEPT
                 !.capture_group = capture_group,
                 !.out = regex_extract(cls, "first_name", "^[A-Z]{1,4}", capture_group)]
    /\ UNCHANGED <<dialect_instances, heap, subclasses, factory_name,
                   dialect_lookup, run_vars, expression_vars, sampling_vars>>

RandomSampleSql(cls, proportion, sample_size, seed) ==
    /\ ret' = [Call("random_sample_sql", cls) EXCEPT
                 !.proportion = proportion, !.sample_size = sample_size,
                 !.seed = seed,
                 !.out = random_sample_sql(cls, proportion, sample_size, seed)]
    /\ UNCHANGED <<dialect_instances, heap, subclasses, factory_name,
                   dialect_lookup, run_vars, expression_vars, sampling_vars>>

\* explode_arrays_sql on the first k of ExplodeColumns.
ExplodeArraysSql(cls, k, other_columns_to_retain) ==
    /\ ret' = [Call("explode_arrays_sql", cls) EXCEPT
                 !.columns_to_explode = SubSeq(ExplodeColumns, 1, k),
                 !.other_columns_to_retain = other_columns_to_retain,
                 !.out = explode_arrays_sql(cls, "__splink__df_concat_with_tf",
                                            SubSeq(ExplodeColumns, 1, k),
                                            other_columns_to_retain)]
    /\ UNCHANGED <<dialect_instances, heap, subclasses, factory_name,
                   dialect_lookup, run_vars, expression_vars, sampling_vars>>

ArrayIntersect(cls, threshold) ==
    /\ ret' = [Call("array_intersect", cls) EXCEPT
                 !.capture_group = threshold,
                 !.out = array_intersect(cls, "tags_l", "tags_r", threshold)]
    /\ UNCHANGED <<dialect_instances, heap, subclasses, factory_name,
                   dialect_lookup, run_vars, expression_vars, sampling_vars>>

InfinityExpression(cls) ==
    /\ ret' = [Call("infinity_expression", cls) EXCEPT
                 !.out = infinity_expression(cls)]
    /\ UNCHANGED <<dialect_instances, heap, subclasses, factory_name,
                   dialect_lookup, run_vars, expression_vars, sampling_vars>>

\* The dialect layer once imported, beside a linker nobody trains.
InitDialect ==
    /\ DialectsImported
    /\ ret = NoCall
    /\ linker = Linker("dedupe_only", "duckdb", FALSE)
    /\ run = [r \in Runs |-> IdleFrame]
    /\ backend = [handles |-> <<Handle("__splink__df_concat_with_tf", 0)>>,
                  nodes_with_tf |-> 1,
                  row_counts |-> <<3>>]
    /\ NoExpressions
    /\ sampled = NoSample

\* Constructions, lookups and capability requests on the shipped dialects.
NextDialect ==
    \/ \E cls \in Range(BuiltinClasses) : Construct(cls)
    \/ \E key \in FactoryKeys : FromString(key)
    \/ \E cls \in Range(BuiltinClasses), which \in FunctionNames :
           FunctionName(cls, which)
    \/ \E cls \in Range(BuiltinClasses), date_format \in DateFormats :
           TryParseDate(cls, date_format)
    \/ \E cls \in Range(BuiltinClasses), capture_group \in 0..MaxCaptureGroup :
           RegexExtract(cls, capture_group)
    \/ \E cls \in Range(BuiltinClasses), proportion \in Proportions,
          sample_size \in SampleSizes, seed \in Seeds :
           RandomSampleSql(cls, proportion, sample_size, seed)
    \/ \E cls \in Range(BuiltinClasses), k \in 0..MaxExplode,
          other_columns_to_retain \in RetainedColumns :
           ExplodeArraysSql(cls, k, other_columns_to_retain)
    \/ \E cls \in Range(BuiltinClasses), threshold \in 1..2 :
           ArrayIntersect(cls, threshold)
    \/ \E cls \in Range(BuiltinClasses) : InfinityExpression(cls)

SpecDialect == InitDialect /\ [][NextDialect]_vars

\* The registry with user-defined subclasses of SplinkDialect.
NextRegistry ==
    \/ \E fname \in UserFactoryNames : DefineSubclass(fname)
    \/ \E cls \in Classes : Construct(cls)
    \/ \E key \in FactoryKeys : FromString(key)

SpecRegistry == InitDialect /\ [][NextRegistry]_vars

---------------------------------------------------------------------------
(* Calls on ColumnExpression *)

\* The raw strings expressions are created from: a column, a concatenation
\* and a function call over a column and a string literal.
Raws == {"first_name", "first_name || surname", "coalesce(first_name, 'surname')"}

\* The raw strings that are classified: a column name or a concatenation,
\* with and without parentheses before, inside and after it.
RawStrings ==
    {before \o column \o operator \o after :
        before \in {"", "(", ")", "upper("},
        column \in {"first_name", "first name"},
        operator \in {"", " || surname", " | surname"},
        after \in {"", ")", "("}}

Patterns == {"^[A-Z]{1,4}"}

\* The dialect a linker binds to its expressions, or none.
ExpressionDialects == Range(BuiltinClasses) \cup {"None"}

\* ColumnExpression(raw, sql_dialect); one linker binds one dialect to all
\* the expressions it is given.
NewExpression(raw, sql_dialect) ==
    /\ Len(expressions) < MaxExpressions
    /\ Len(expressions) > 0 => sql_dialect = expressions[1].sql_dialect
    /\ LET c == init(expressions, operation_lists, raw, sql_dialect)
       IN  /\ expressions' = c.expressions
           /\ operation_lists' = c.lists
           /\ compiled' = [NoRead EXCEPT !.prop = "init", !.obj = c.obj, !.raw = raw]
    /\ UNCHANGED <<dialect_vars, run_vars, sampling_vars>>

\* The outcome of a transform of expression e: the clone with op appended.
transformed(e, op) ==
    append_operation(clone(expressions, operation_lists, e), op)

\* e.lower()
Lower(e) ==
    /\ e \in 1..Len(expressions)
    /\ Len(expressions) < MaxExpressions
    /\ LET c == transformed(e, Operation("lower", 0, 0, "", "None",
                                         Len(expressions) + 1))
       IN  /\ expressions' = c.expressions
           /\ operation_lists' = c.lists
           /\ compiled' = [NoRead EXCEPT !.prop = "lower", !.expr = e, !.obj = c.obj]
    /\ UNCHANGED <<dialect_vars, run_vars, sampling_vars>>

\* e.substr(start, length)
Substr(e, start, length) ==
    /\ e \in 1..Len(expressions)
    /\ Len(expressions) < MaxExpressions
    /\ LET c == transformed(e, Operation("substr", start, length, "", "None",
                                         Len(expressions) + 1))
       IN  /\ expressions' = c.expressions
           /\ operation_lists' = c.lists
           /\ compiled' = [NoRead EXCEPT !.prop = "substr", !.expr = e, !.obj = c.obj]
    /\ UNCHANGED <<dialect_vars, run_vars, sampling_vars>>

\* e.regex_extract(pattern, capture_group): the capture group is not kept.
RegexExtractTransform(e, pattern, capture_group) ==
    /\ e \in 1..Len(expressions)
    /\ Len(expressions) < MaxExpressions
    /\ LET c == transformed(e, Operation("regex_extract", 0, 0, pattern, "None",
                                         Len(expressions) + 1))
       IN  /\ expressions' = c.expressions
           /\ operation_lists' = c.lists
           /\ compiled' = [NoRead EXCEPT !.prop = "regex_extract", !.expr = e,
                                         !.obj = c.obj]
    /\ UNCHANGED <<dialect_vars, run_vars, sampling_vars>>

\* e.try_parse_date(date_format)
TryParseDateTransform(e, date_format) ==
    /\ e \in 1..Len(expressions)
    /\ Len(expressions) < MaxExpressions
    /\ LET c == transformed(e, Operation("try_parse_date", 0, 0, "", date_format,
                                         Len(expressions) + 1))
       IN  /\ expressions' = c.expressions
           /\ operation_lists' = c.lists
           /\ compiled' = [NoRead EXCEPT !.prop = "try_parse_date", !.expr = e,
                                         !.obj = c.obj]
    /\ UNCHANGED <<dialect_vars, run_vars, sampling_vars>>

\* e.name, e.name_l and e.name_r, read one after the other.
ReadNames(e) ==
    /\ e \in 1..Len(expressions)
    /\ compiled' =
           [NoRead EXCEPT
              !.prop = "name", !.expr = e,
              !.out = expression_name(expressions, operation_lists, e),
              !.out_l = expression_name_l(expressions, operation_lists, e),
              !.out_r = expression_name_r(expressions, operation_lists, e)]
    /\ UNCHANGED <<expressions, operation_lists, dialect_vars, run_vars, sampling_vars>>

\* ColumnExpression(raw).raw_sql_is_pure_column_or_column_reference and
\* .parse_input_string(dialect) on an expression nothing else refers to.
Classify(raw, cls) ==
    /\ compiled' = [NoRead EXCEPT
                      !.prop = "parse_input_string", !.raw = raw,
                      !.pure = raw_sql_is_pure_column_or_column_reference(raw),
                      !.out = Ok(parse_input_string(raw, cls))]
    /\ ret' = Call("parse_input_string", cls)
    /\ UNCHANGED <<dialect_instances, heap, subclasses, factory_name,
                   dialect_lookup, expressions, operation_lists, run_vars,
                   sampling_vars>>

\* The dialect layer imported and no expression created yet.
InitExpression ==
    /\ DialectsImported
    /\ ret = NoCall
    /\ linker = Linker("dedupe_only", "duckdb", FALSE)
    /\ run = [r \in Runs |-> IdleFrame]
    /\ backend = [handles |-> <<Handle("__splink__df_concat_with_tf", 0)>>,
                  nodes_with_tf |-> 1,
                  row_counts |-> <<3>>]
    /\ NoExpressions
    /\ sampled = NoSample

NextExpression ==
    \/ \E raw \in Raws, sql_dialect \in ExpressionDialects :
           NewExpression(raw, sql_dialect)
    \/ \E e \in 1..MaxExpressions : Lower(e)
    \/ \E e \in 1..MaxExpressions : Substr(e, 1, 2)
    \/ \E e \in 1..MaxExpressions, pattern \in Patterns, capture_group \in 1..2 :
           RegexExtractTransform(e, pattern, capture_group)
    \/ \E e \in 1..MaxExpressions : TryParseDateTransform(e, "None")
    \/ \E e \in 1..MaxExpressions : ReadNames(e)

SpecExpression == InitExpression /\ [][NextExpression]_vars

\* Raw strings are classified, one after the other.
NextClassify ==
    \E raw \in RawStrings, cls \in Range(BuiltinClasses) : Classify(raw, cls)

SpecClassify == InitExpression /\ [][NextClassify]_vars

---------------------------------------------------------------------------
(* The sampling computation of estimate_u_values on its own *)

\* The counts the link_only count query can return: one positive count per
\* dataset that has rows.
LinkRowCounts ==
    UNION {[1..k -> 1..MaxDatasetRows] : k \in 0..MaxDatasets}

\* What lines 83-111 compute from the counts and max_pairs.
Sampled(link_type, row_counts, max_pairs) ==
    LET returned == sampling_values(link_type, row_counts, max_pairs)
        handed == sampling_plan(link_type, row_counts, max_pairs)
    IN  [link_type |-> link_type, row_counts |-> row_counts,
         max_pairs |-> max_pairs, exc |-> returned.exc,
         total_nodes |-> returned.total_nodes,
         total_links |-> returned.total_links,
         returned_proportion |-> returned.proportion,
         returned_sample_size |-> returned.sample_size,
         proportion |-> handed.proportion,
         sample_size |-> handed.sample_size]

\* lines 74-87 and 107-111 on a table of total_nodes rows, once in a call.
SampleDedupe(link_type, total_nodes, max_pairs) ==
    /\ sampled = NoSample
    /\ sampled' = Sampled(link_type, <<total_nodes>>, max_pairs)
    /\ UNCHANGED <<dialect_vars, run_vars, expression_vars>>

\* lines 89-111 on datasets of the given row counts, once in a call.
SampleLinkOnly(frame_counts, max_pairs) ==
    /\ sampled = NoSample
    /\ sampled' = Sampled("link_only", frame_counts, max_pairs)
    /\ UNCHANGED <<dialect_vars, run_vars, expression_vars>>

NextSampling ==
    \/ \E link_type \in {"dedupe_only", "link_and_dedupe"}, total_nodes \in 0..MaxRows,
          max_pairs \in 0..MaxTargetPairs :
           SampleDedupe(link_type, total_nodes, max_pairs)
    \/ \E frame_counts \in LinkRowCounts, max_pairs \in 0..MaxTargetPairs :
           SampleLinkOnly(frame_counts, max_pairs)

SpecSampling == InitExpression /\ [][NextSampling]_vars

---------------------------------------------------------------------------
(* Properties *)

\* The handles run r obtained by executing a pipeline.
HandlesOf(r) == {h \in 1..Len(backend.handles) : backend.handles[h].by = r}

\* C1: a call of estimate_u_values that completes leaves the caller's retain
\* flags, term-frequency adjustment columns, blocking rules and queue of
\* pending SQL as they were when it was called.
C1_CallerLinkerKept ==
    run[1].pc = "done" => Kept(linker) = run[1].kept

\* C2: when a call of estimate_u_values has ended, by returning or by raising,
\* every result handle it obtained from the pipeline has been dropped exactly
\* once.
C2_HandlesReleasedOnce ==
    \A r \in Runs :
        run[r].pc \in {"done", "failed"} =>
            \A h \in HandlesOf(r) : backend.handles[h].drops = 1

\* C3: with two calls interleaved, every queue holds only statements of the
\* call that owns it: the caller's queue holds no statement of either call,
\* and a call's training linker holds only statements that call enqueued.
C3_RunsEnqueueOnOwnLinker ==
    /\ \A i \in 1..Len(linker.queue) : linker.queue[i].by \notin Runs
    /\ \A r \in Runs :
           \A i \in 1..Len(run[r].training_linker.queue) :
               run[r].training_linker.queue[i].by = r

\* C4: the pipeline whose result is read as the parameter counts is, in this
\* order, the blocking statement, __splink__df_comparison_vectors,
\* __splink__df_predict and __splink__m_u_counts.
C4_ParamsPipelineOrder ==
    run[1].pc \in {"read_params", "write_u", "done"} =>
        run[1].params_pipeline =
            <<"__splink__df_blocked", "__splink__df_comparison_vectors",
              "__splink__df_predict", "__splink__m_u_counts">>

\* C5 as claimed: when the dialect refuses the sampling clause, the call has
\* handed no statement to the backend.
C5_CapabilityErrorBeforeAnyExecution ==
    run[1].exc = "NotImplementedError" => run[1].submitted = <<>>

\* C5 as amended: when the dialect refuses the sampling clause, the call has
\* executed the row-count statement and nothing else, has dropped the count's
\* result, and has neither enqueued nor executed the sampling statement.
C5_CapabilityErrorAfterCountOnly ==
    run[1].exc = "NotImplementedError" =>
        /\ run[1].submitted = <<"__splink__df_concat_count">>
        /\ run[1].training_linker.queue = <<>>
        /\ run[1].df_sample = 0
        /\ HandlesOf(1) = {run[1].dataframe}
        /\ backend.handles[run[1].dataframe].drops = 1

\* A call on SQLite with a seed and a sample smaller than the input has
\* failed with the dialect's refusal.
C5_Witness ==
    /\ run[1].exc = "NotImplementedError"
    /\ run[1].pc = "failed"
    /\ linker.sql_dialect = "sqlite"
    /\ Truthy(run[1].seed)
    /\ run[1].proportion < Scale

\* C6: each shipped dialect class has exactly one instance, the one stored in
\* _dialect_lookup under its backend name; no class has two instances, no two
\* classes share one; every construction of a shipped class and every
\* from_string with a shipped name returns that instance.
C6_DialectSingleton ==
    /\ \A i, j \in 1..Len(heap) : heap[i] = heap[j] => i = j
    /\ \A c \in Range(BuiltinClasses) :
           /\ dialect_lookup[BuiltinFactoryName(c)] \in 1..Len(heap)
           /\ heap[dialect_lookup[BuiltinFactoryName(c)]] = c
           /\ dialect_instances[c] = dialect_lookup[BuiltinFactoryName(c)]
    /\ ret.op = "new" => ret.obj = dialect_lookup[BuiltinFactoryName(ret.cls)]
    /\ (ret.op = "from_string" /\ ret.key \in DialectNames) =>
           /\ ret.out.kind = "return"
           /\ ret.obj = dialect_lookup[ret.key]

\* from_string("athena") has returned the instance of AthenaDialect that
\* _dialect_lookup holds.
C6_Witness ==
    /\ ret.op = "from_string"
    /\ ret.key = "athena"
    /\ ret.obj = dialect_lookup["athena"]
    /\ heap[ret.obj] = "AthenaDialect"

CapabilityOps ==
    FunctionNames \cup {"try_parse_date", "regex_extract", "random_sample_sql",
                        "explode_arrays_sql", "array_intersect",
                        "infinity_expression"}

\* Whether a message names the backend of class cls.
NamesBackend(msg, cls) ==
    \/ Contains(msg, name(cls))
    \/ Contains(msg, cls)
    \/ Contains(msg, SubSeq(cls, 1, Len(cls) - Len("Dialect")))

\* C7: a capability requested of a shipped dialect returns a SQL fragment or
\* raises the capability-not-supported error (NotImplementedError) naming the
\* backend; nothing else is raised.
C7_CapabilityOrNotSupported ==
    ret.op \in CapabilityOps =>
        \/ ret.out.kind = "return"
        \/ /\ ret.out.exc = "NotImplementedError"
           /\ NamesBackend(ret.out.text, ret.cls)

\* C8: on SQLite and Postgres, random_sample_sql with a seed other than None
\* and a proportion below 1.0 raises, naming the seed and the backend.
C8_SeedRefused ==
    (/\ ret.op = "random_sample_sql"
     /\ ret.cls \in {"SQLiteDialect", "PostgresDialect"}
     /\ ret.seed # None
     /\ ret.proportion < Scale) =>
        /\ ret.out.kind = "raise"
        /\ ret.out.exc = "NotImplementedError"
        /\ Contains(ret.out.text, "seed")
        /\ NamesBackend(ret.out.text, ret.cls)

\* C9 as claimed: random_sample_sql with proportion 1.0 returns the empty
\* clause on every shipped dialect.
C9_FullProportionEmptyEverywhere ==
    (ret.op = "random_sample_sql" /\ ret.proportion = Scale) => ret.out = Ok("")

\* C9 as amended: random_sample_sql with proportion 1.0 returns the empty
\* clause on duckdb, spark, sqlite and postgres, whatever the sample size and
\* the seed; on athena, which has no random_sample_sql of its own, it raises
\* NotImplementedError naming the backend.
C9_FullProportionEmpty ==
    (ret.op = "random_sample_sql" /\ ret.proportion = Scale) =>
        IF ret.cls = "AthenaDialect"
        THEN /\ ret.out.kind = "raise"
             /\ ret.out.exc = "NotImplementedError"
             /\ Contains(ret.out.text, "athena")
             /\ Contains(ret.out.text, "random_sample_sql")
        ELSE ret.out = Ok("")

\* SQLite was asked for a full sample with a seed and returned the empty
\* clause.
C9_Witness ==
    /\ ret.op = "random_sample_sql"
    /\ ret.cls = "SQLiteDialect"
    /\ ret.proportion = Scale
    /\ ret.seed = 1
    /\ ret.sample_size > 0
    /\ ret.out = Ok("")

\* C10 as claimed: from_string with a key other than the five shipped names
\* raises an error whose message names the key and lists the valid keys.
C10_UnknownKeyListsValidKeys ==
    (ret.op = "from_string" /\ ret.key \notin DialectNames
     /\ subclasses = BuiltinClasses) =>
        /\ ret.out.kind = "raise"
        /\ Contains(ret.out.text, ret.key)
        /\ \A n \in DialectNames : Contains(ret.out.text, n)

\* C10 as amended: from_string with a key that no subclass declares (with the
\* shipped classes alone: any key other than the five names) raises
\* ValueError with a message that names the key and lists no valid key; a key
\* that more than one subclass declares raises ValueError too, naming the key
\* and the classes, and returns neither; no instance is created either way.
C10_UnknownOrAmbiguousKeyRaises ==
    ret.op = "from_string" =>
        LET found == classes_from_dialect_name(subclasses, factory_name, ret.key)
        IN  /\ (ret.key \notin DialectNames /\ subclasses = BuiltinClasses) =>
                   Len(found) = 0
            /\ Len(found) = 0 =>
                   /\ ret.out.kind = "raise"
                   /\ ret.out.exc = "ValueError"
                   /\ Contains(ret.out.text, "'" \o ret.key \o "'")
                   /\ \A n \in DialectNames \ {ret.key} : ~Contains(ret.out.text, n)
                   /\ ret.obj = NoObj
            /\ Len(found) > 1 =>
                   /\ ret.out.kind = "raise"
                   /\ ret.out.exc = "ValueError"
                   /\ Contains(ret.out.text, ret.key)
                   /\ \A i \in 1..Len(found) :
                          Contains(ret.out.text, class_repr(found[i]))
                   /\ ret.obj = NoObj

\* from_string("duckdb") was called with a user-defined subclass declaring
\* duckdb beside DuckDBDialect, and raised.
C10_Witness ==
    /\ ret.op = "from_string"
    /\ ret.key = "duckdb"
    /\ Len(classes_from_dialect_name(subclasses, factory_name, "duckdb")) > 1
    /\ ret.out.kind = "raise"

\* The input gives no pair to sample: no rows at all, or, between datasets
\* only, fewer than two datasets with rows.
DegenerateInput ==
    IF linker.settings_obj.link_type = "link_only"
    THEN Len(SelectSeq(backend.row_counts, LAMBDA n : n > 0)) < 2
    ELSE sum(backend.row_counts) = 0

\* C11: on an input with no rows or no valid pairs the call never gets as far
\* as the sampling clause, and when its sampling computation fails it fails
\* with DegenerateInputError.
C11_DegenerateInputError ==
    DegenerateInput =>
        /\ run[1].pc \in {"idle", "clone", "count", "sample_size", "failed"}
        /\ (run[1].pc = "failed" /\ run[1].exc # "ExecutorError")
               => run[1].exc = "DegenerateInputError"

\* C12: a step leaves every expression that exists its raw string, its
\* dialect, its operations list and the content of that list, hence its
\* compiled name; and after the step no two expressions refer to one
\* operations list.
C12_TransformsNeverShareOperations ==
    [][/\ \A e \in 1..Len(expressions) :
              /\ expressions'[e] = expressions[e]
              /\ operation_lists'[expressions[e].operations]
                     = operation_lists[expressions[e].operations]
              /\ expression_name(expressions', operation_lists', e)
                     = expression_name(expressions, operation_lists, e)
       /\ \A e1, e2 \in 1..Len(expressions') :
              e1 # e2 => expressions'[e1].operations # expressions'[e2].operations
      ]_vars

\* An expression without operations was given lower() and then
\* regex_extract(): it still has no operation, and the two expressions
\* derived from it have one operation each, each in a list of its own.
C12_Witness ==
    /\ Len(expressions) = 3
    /\ compiled.prop = "regex_extract"
    /\ compiled.expr = 1
    /\ compiled.obj = 3
    /\ Len(operation_lists[expressions[1].operations]) = 0
    /\ Len(operation_lists[expressions[2].operations]) = 1
    /\ operation_lists[expressions[2].operations][1].kind = "lower"
    /\ Len(operation_lists[expressions[3].operations]) = 1
    /\ expressions[2].raw_sql_expression = expressions[1].raw_sql_expression

\* The pieces of s between the separators sep.
RECURSIVE split(_, _)
split(s, sep) ==
    LET at == find_str(s, 1, sep)
    IN  IF at = 0 THEN <<s>>
        ELSE <<SubSeq(s, 1, at - 1)>> \o split(SubSeq(s, at + Len(sep), Len(s)), sep)

\* One item of a select list read back: 'f(c) as a' or 'c'.
SelectItem(item) ==
    LET open == find_str(item, 1, "(")
        close == find_str(item, 1, ") as ")
    IN  IF open = 0 \/ close = 0
        THEN [function |-> "", column |-> item, alias |-> item]
        ELSE [function |-> SubSeq(item, 1, open - 1),
              column |-> SubSeq(item, open + 1, close - 1),
              alias |-> SubSeq(item, close + 5, Len(item))]

NestedFrom == "\n                from ("

\* A statement 'select <items> from (<statement>)' or 'select <items> from
\* <table>' read back as its levels, outermost first.
RECURSIVE SelectLevels(_)
SelectLevels(sql) ==
    LET nested == find_str(sql, 1, NestedFrom)
        plain == find_str(sql, 1, " from ")
    IN  IF nested = 0
        THEN <<[items |-> [i \in 1..Len(split(SubSeq(sql, 8, plain - 1), ",")) |->
                              SelectItem(split(SubSeq(sql, 8, plain - 1), ",")[i])],
                table |-> SubSeq(sql, plain + 6, Len(sql))]>>
        ELSE <<[items |-> [i \in 1..Len(split(SubSeq(sql, 8, nested - 1), ",")) |->
                              SelectItem(split(SubSeq(sql, 8, nested - 1), ",")[i])],
                table |-> ""]>>
             \o SelectLevels(SubSeq(sql, nested + Len(NestedFrom), Len(sql) - 1))

\* How often the column c is carried by the select list of a level.
Carried(level, c) ==
    Cardinality({i \in 1..Len(level.items) : level.items[i].alias = c})

\* The shape of explode_arrays_sql(tbl, E, R) of class cls in the text sql:
\* one level per column of E around a select from the table without any
\* unnesting, level i from the outside unnesting the i-th column of E from
\* the right, and no other, and every level carrying each column of E and of
\* R once; without columns to explode, the plain select of R.
ExplodedShape(cls, sql, E, R) ==
    LET levels == SelectLevels(sql)
        k == Len(E)
    IN  /\ SubSeq(sql, 1, 7) = "select "
        /\ Len(levels) = k + 1
        /\ levels[k + 1].table = "__splink__df_concat_with_tf"
        /\ \A i \in 1..Len(levels[k + 1].items) :
               levels[k + 1].items[i].function = ""
        /\ \A n \in 1..k :
               \A i \in 1..Len(levels[n].items) :
                   IF i = 1
                   THEN /\ levels[n].items[i].function = unnest_keyword(cls)
                        /\ levels[n].items[i].column = E[k + 1 - n]
                        /\ levels[n].items[i].alias = E[k + 1 - n]
                   ELSE levels[n].items[i].function = ""
        /\ \A n \in 1..(k + 1) :
               /\ \A c \in Range(E) \cup Range(R) : Carried(levels[n], c) = 1
               /\ Len(levels[n].items) = Cardinality(Range(E) \cup Range(R))
        /\ k = 0 => sql = "select " \o Join(R, ",") \o " from __splink__df_concat_with_tf"

\* C13 as claimed: for every list R of columns to retain, the statement of
\* DuckDB and of Spark has that shape, and Spark's is DuckDB's with explode
\* for unnest.
C13_ExplodeShapeForEveryRetained ==
    (ret.op = "explode_arrays_sql" /\ ret.cls \in {"DuckDBDialect", "SparkDialect"}) =>
        /\ ret.out.kind = "return"
        /\ ExplodedShape(ret.cls, ret.out.text, ret.columns_to_explode,
                         ret.other_columns_to_retain)
        /\ ret.out.text =
               replace(explode_arrays_sql("DuckDBDialect", "__splink__df_concat_with_tf",
                                          ret.columns_to_explode,
                                          ret.other_columns_to_retain).text,
                       "unnest(", unnest_keyword(ret.cls) \o "(")

\* C13 as amended: the same, for a list R that names no column of E.
C13_ExplodeShape ==
    (/\ ret.op = "explode_arrays_sql"
     /\ ret.cls \in {"DuckDBDialect", "SparkDialect"}
     /\ Range(ret.columns_to_explode) \cap Range(ret.other_columns_to_retain) = {}) =>
        /\ ret.out.kind = "return"
        /\ ExplodedShape(ret.cls, ret.out.text, ret.columns_to_explode,
                         ret.other_columns_to_retain)
        /\ ret.out.text =
               replace(explode_arrays_sql("DuckDBDialect", "__splink__df_concat_with_tf",
                                          ret.columns_to_explode,
                                          ret.other_columns_to_retain).text,
                       "unnest(", unnest_keyword(ret.cls) \o "(")

\* Spark was asked to explode two columns while retaining two others.
C13_Witness ==
    /\ ret.op = "explode_arrays_sql"
    /\ ret.cls = "SparkDialect"
    /\ ret.columns_to_explode = <<"tags", "emails">>
    /\ ret.other_columns_to_retain = <<"unique_id", "dob">>
    /\ ret.out.kind = "return"
    /\ Len(SelectLevels(ret.out.text)) = 3

\* The operations of expression e.
OperationsOf(e) == operation_lists[expressions[e].operations]

\* The base expression expected of a raw string of Raws under a dialect, its
\* column identifiers carrying the suffix: a bare column is quoted, in a
\* compound expression every column is suffixed and nothing else.
ExpectedBase(raw, cls, suffix) ==
    CASE raw = "first_name" ->
           identifier_quote(sqlglot_name(cls)) \o "first_name" \o suffix
           \o identifier_quote(sqlglot_name(cls))
      [] raw = "first_name || surname" ->
           "first_name" \o suffix \o " || surname" \o suffix
      [] OTHER ->
           "coalesce(first_name" \o suffix \o ", 'surname')"

\* The text expected of one transform around the text x.
ExpectedWrap(op, x, cls) ==
    CASE op.kind = "lower" -> Ok("LOWER(" \o x \o ")")
      [] op.kind = "substr" ->
           Ok("SUBSTRING(" \o x \o ", " \o ToString(op.start) \o ", "
              \o ToString(op.end) \o ")")
      [] op.kind = "regex_extract" ->
           Ok("REGEXP_EXTRACT(" \o x \o ", '" \o op.pattern \o "')")
      [] OTHER -> try_parse_date(cls, x, op.date_format)

\* tn(...t2(t1(base))...) for the transforms t1, ..., tn: the last transform
\* around what the transforms before it give.
RECURSIVE ExpectedNesting(_, _, _)
ExpectedNesting(operations, base, cls) ==
    IF Len(operations) = 0 THEN Ok(base)
    ELSE LET inner == ExpectedNesting(SubSeq(operations, 1, Len(operations) - 1),
                                      base, cls)
         IN  IF inner.kind = "raise" THEN inner
             ELSE ExpectedWrap(operations[Len(operations)], inner.text, cls)

\* C14: under a bound dialect name, name_l and name_r are the same chain of
\* transforms around the base expression, around the base expression with
\* every column suffixed _l and around it with every column suffixed _r.
C14_NamesSuffixEveryIdentifier ==
    (compiled.prop = "name" /\ expressions[compiled.expr].sql_dialect # "None") =>
        LET e == expressions[compiled.expr]
        IN  /\ compiled.out = ExpectedNesting(OperationsOf(compiled.expr),
                   ExpectedBase(e.raw_sql_expression, e.sql_dialect, ""),
                   e.sql_dialect)
            /\ compiled.out_l = ExpectedNesting(OperationsOf(compiled.expr),
                   ExpectedBase(e.raw_sql_expression, e.sql_dialect, "_l"),
                   e.sql_dialect)
            /\ compiled.out_r = ExpectedNesting(OperationsOf(compiled.expr),
                   ExpectedBase(e.raw_sql_expression, e.sql_dialect, "_r"),
                   e.sql_dialect)

\* The names of ColumnExpression("first_name || surname").lower() were read
\* under DuckDB.
C14_Witness ==
    /\ compiled.prop = "name"
    /\ expressions[compiled.expr].raw_sql_expression = "first_name || surname"
    /\ expressions[compiled.expr].sql_dialect = "DuckDBDialect"
    /\ Len(OperationsOf(compiled.expr)) = 1
    /\ compiled.out = Ok("LOWER(first_name || surname)")
    /\ compiled.out_l = Ok("LOWER(first_name_l || surname_l)")
    /\ compiled.out_r = Ok("LOWER(first_name_r || surname_r)")

\* The kinds of the operations of expression e, in the order they were added.
KindsOf(e) == [i \in 1..Len(OperationsOf(e)) |-> OperationsOf(e)[i].kind]

\* C15: the compiled name of an expression under a bound dialect is the last
\* transform added around the one added before it, and so on down to the
\* base expression: lower() then regex_extract(p) gives the regex-extract of
\* the lowered base, and lower() alone on first_name gives LOWER around the
\* quoted identifier.
C15_TransformsNestInOrderAdded ==
    (compiled.prop = "name" /\ expressions[compiled.expr].sql_dialect # "None") =>
        LET e == expressions[compiled.expr]
            base == parse_input_string(e.raw_sql_expression, e.sql_dialect)
        IN  /\ compiled.out = ExpectedNesting(OperationsOf(compiled.expr), base,
                                              e.sql_dialect)
            /\ KindsOf(compiled.expr) = <<"lower", "regex_extract">> =>
                   compiled.out =
                       Ok("REGEXP_EXTRACT(LOWER(" \o base \o "), '"
                          \o OperationsOf(compiled.expr)[2].pattern \o "')")
            /\ (KindsOf(compiled.expr) = <<"lower">>
                    /\ e.raw_sql_expression = "first_name") =>
                   compiled.out =
                       Ok("LOWER(" \o identifier_quote(sqlglot_name(e.sql_dialect))
                          \o "first_name"
                          \o identifier_quote(sqlglot_name(e.sql_dialect)) \o ")")

\* The name of ColumnExpression("first_name").lower().regex_extract(p) was
\* read under DuckDB.
C15_Witness ==
    /\ compiled.prop = "name"
    /\ expressions[compiled.expr].raw_sql_expression = "first_name"
    /\ expressions[compiled.expr].sql_dialect = "DuckDBDialect"
    /\ KindsOf(compiled.expr) = <<"lower", "regex_extract">>
    /\ compiled.out = Ok("REGEXP_EXTRACT(LOWER(\"first_name\"), '^[A-Z]{1,4}')")

\* C16: a regex_extract transform compiles to the dialect's regex-extract
\* call inside NULLIF(..., ''): the name of an expression whose last
\* transform is regex_extract starts with NULLIF( and ends with , '').
C16_RegexExtractTransformWrapped ==
    (/\ compiled.prop = "name"
     /\ compiled.out.kind = "return"
     /\ Len(KindsOf(compiled.expr)) > 0
     /\ KindsOf(compiled.expr)[Len(KindsOf(compiled.expr))] = "regex_extract") =>
        /\ SubSeq(compiled.out.text, 1, 7) = "NULLIF("
        /\ SubSeq(compiled.out.text, Len(compiled.out.text) - 5,
                  Len(compiled.out.text)) = ", '')"

\* The raw string quoted as an identifier of the dialect of class cls.
QuotedFor(raw, cls) ==
    identifier_quote(sqlglot_name(cls)) \o raw \o identifier_quote(sqlglot_name(cls))

\* C17 as claimed: a raw string is a bare column reference, quoted for the
\* dialect, exactly when it holds no parenthesis and no ||, and is passed
\* through unchanged otherwise; both classifiers agree.
C17_BareWithoutAnyParenthesis ==
    compiled.prop = "parse_input_string" =>
        LET bare == /\ ~Contains(compiled.raw, "(")
                    /\ ~Contains(compiled.raw, ")")
                    /\ ~Contains(compiled.raw, "||")
        IN  /\ compiled.pure = bare
            /\ compiled.out = Ok(IF bare THEN QuotedFor(compiled.raw, ret.cls)
                                 ELSE compiled.raw)

\* C17 as amended: a raw string is a bare column reference, quoted for the
\* dialect, exactly when it holds no opening parenthesis with a closing one
\* somewhere after it and no ||, and is passed through unchanged otherwise;
\* both classifiers agree.
C17_BareWithoutParenthesisPair ==
    compiled.prop = "parse_input_string" =>
        LET pair == \E i, j \in 1..Len(compiled.raw) :
                        /\ i < j
                        /\ CharAt(compiled.raw, i) = "("
                        /\ CharAt(compiled.raw, j) = ")"
            bare == ~pair /\ ~Contains(compiled.raw, "||")
        IN  /\ compiled.pure = bare
            /\ compiled.out = Ok(IF bare THEN QuotedFor(compiled.raw, ret.cls)
                                 ELSE compiled.raw)

\* A raw string with a closing parenthesis before its opening one was
\* classified under DuckDB: a bare column reference, quoted.
C17_Witness ==
    /\ compiled.prop = "parse_input_string"
    /\ ret.cls = "DuckDBDialect"
    /\ compiled.raw = ")first_name("
    /\ compiled.pure
    /\ compiled.out = Ok("\")first_name(\"")

\* The sampling computed last was for one table of at least n rows.
DedupeSampled(n) ==
    /\ sampled.link_type \in {"dedupe_only", "link_and_dedupe"}
    /\ sampled.total_nodes >= n
    /\ sampled.exc = ""

\* The pairs among the rows of the table sampled last.
AllPairs == (sampled.total_nodes * (sampled.total_nodes - 1)) \div 2

\* C18: for a table of N >= 2 rows and 1 <= P <= N(N-1)/2 the expected pair
\* count proportion^2 * N(N-1)/2 is within one pair and one percent of P.
\* The proportion p is known to the resolution of the model, between
\* returned_proportion and returned_proportion + 2 in units of 1/Scale, so
\* the expected count lies between the two products below.
C18_ExpectedPairsNearTarget ==
    (DedupeSampled(2) /\ sampled.max_pairs >= 1 /\ sampled.max_pairs <= AllPairs) =>
        LET target == sampled.max_pairs * Scale * Scale
            tolerance == Scale * Scale + target \div 100
            least == sampled.returned_proportion * sampled.returned_proportion
                     * AllPairs
            most == (sampled.returned_proportion + 2)
                    * (sampled.returned_proportion + 2) * AllPairs
        IN  /\ least <= target + tolerance
            /\ most >= target - tolerance

\* C19: for one table of N >= 1 rows the sample row count r solves
\* r(r-1)/2 = P (to the resolution of the model: twice P lies between
\* r(r-1) for the r computed and for r + 2/Scale), and for P <= N(N-1)/2 the
\* r and the proportion r/N computed are at most N and 1.0 before any clamp;
\* in every branch and for every P the proportion handed on is at most 1.0
\* and the sample size at most the total row count.
C19_SampleWithinInput ==
    /\ DedupeSampled(1) =>
           /\ sampled.returned_sample_size * (sampled.returned_sample_size - Scale)
                  <= 2 * sampled.max_pairs * Scale * Scale
           /\ (sampled.returned_sample_size + 2)
                  * (sampled.returned_sample_size + 2 - Scale)
                  >= 2 * sampled.max_pairs * Scale * Scale
           /\ sampled.max_pairs <= AllPairs =>
                  /\ sampled.returned_sample_size <= sampled.total_nodes * Scale
                  /\ sampled.returned_proportion <= Scale
    /\ (sampled.link_type # "" /\ sampled.exc = "") =>
           /\ sampled.proportion <= Scale
           /\ sampled.sample_size <= sampled.total_nodes * Scale

\* A computation whose proportion and sample size were both clamped: a
\* table of 3 rows asked for 10 pairs, or datasets of 2 and 2 rows asked for
\* 16.
C19_Witness ==
    /\ sampled.exc = ""
    /\ sampled.returned_proportion > Scale
    /\ sampled.returned_sample_size > sampled.total_nodes * Scale
    /\ sampled.proportion = Scale
    /\ sampled.sample_size = sampled.total_nodes * Scale
    /\ \/ sampled.link_type = "dedupe_only" /\ sampled.row_counts = <<3>>
                                            /\ sampled.max_pairs = 10
       \/ sampled.link_type = "link_only" /\ sampled.row_counts = <<2, 2>>
                                          /\ sampled.max_pairs = 16

\* The links between the datasets sampled last, twice over.
TwiceLinks ==
    sum(sampled.row_counts) * sum(sampled.row_counts)
    - sum_of_squares(sampled.row_counts)

\* The sampling computed last was between two or more datasets with rows.
LinkOnlySampled ==
    /\ sampled.link_type = "link_only"
    /\ Len(sampled.row_counts) >= 2
    /\ sampled.exc = ""

\* C20 as claimed: for two or more datasets with rows and every max_pairs the
\* sample size _proportion_sample_size_link_only returns is at most the sum
\* of the row counts.
C20_LinkOnlySampleWithinRows ==
    LinkOnlySampled =>
        sampled.returned_sample_size <= sum(sampled.row_counts) * Scale

\* C20 as amended: the sample size returned is at most the sum of the row
\* counts when max_pairs is at most total_links; the sample size handed on
\* after the clamp of estimate_u_values is at most the sum for every
\* max_pairs.
C20_LinkOnlySampleWithinRowsUpToLinks ==
    LinkOnlySampled =>
        /\ 2 * sampled.max_pairs <= TwiceLinks =>
               sampled.returned_sample_size <= sum(sampled.row_counts) * Scale
        /\ sampled.sample_size <= sum(sampled.row_counts) * Scale

\* Datasets of 2 and 2 rows, hence 4 links, were asked for 4 pairs and for
\* more: all 4 rows are returned for 4 pairs.
C20_Witness ==
    /\ LinkOnlySampled
    /\ sampled.row_counts = <<2, 2>>
    /\ sampled.max_pairs = 4
    /\ sampled.returned_sample_size = 4 * Scale


\* The sum over the dataset pairs i < j of n_i * n_j.
PairwiseProducts(counts) ==
    LET Pairs == {p \in (1..Len(counts)) \X (1..Len(counts)) : p[1] < p[2]}
        RECURSIVE Total(_)
        Total(S) == IF S = {} THEN 0
                    ELSE LET p == CHOOSE q \in S : TRUE
                         IN  counts[p[1]] * counts[p[2]] + Total(S \ {p})
    IN  Total(Pairs)

\* total_links of the link_only sampling computed last is a whole number,
\* the sum over the dataset pairs i < j of n_i * n_j.
TotalLinksExact ==
    /\ sampled.total_links % Scale = 0
    /\ sampled.total_links = PairwiseProducts(sampled.row_counts) * Scale

\* The proportion returned last is the square root of
\* max_pairs / total_links to the resolution of the arithmetic, that is
\* proportion^2 * total_links = max_pairs, and the sample size returned is
\* the proportion times the sum of the row counts.
ProportionSolves ==
    /\ sampled.returned_proportion * sampled.returned_proportion
           * sampled.total_links
       <= sampled.max_pairs * Scale * Scale * Scale
    /\ sampled.max_pairs * Scale * Scale * Scale
       < (sampled.returned_proportion + 1)
           * (sampled.returned_proportion + 1) * sampled.total_links
    /\ sampled.returned_sample_size
       = sampled.returned_proportion * sum(sampled.row_counts)

============================================================================
